---- MODULE Spec2Model ----
(***************************************************************************)
(* Model of the diarization service's speaker-continuity subsystem:        *)
(* SpeakerProfile, SessionSpeakerStore and SpeakerTracker                  *)
(* (speaker_tracker.py), AudioProcessor._merge_results (processor.py) and  *)
(* the /inference handler (main.py).                                       *)
(*                                                                         *)
(* Conventions.                                                            *)
(*  - Times and durations are exact, in tenths of a second (0.5 s = 5).    *)
(*  - An embedding is a vector of rationals <<x, y, d>> standing for       *)
(*    (x/d, y/d), d > 0, in lowest terms; None (no embedding) is <<>>.     *)
(*  - A cosine similarity v is held exactly as [sgn, num, den] with        *)
(*    v = sgn * sqrt(num / den).                                           *)
(*  - Optional[str] None is the string "None"; an Optional[int] hint that  *)
(*    is None is 0 (the code only ever tests the hint's truthiness, which  *)
(*    None and 0 share).                                                   *)
(*  - A session (a Python dict speaker_id -> SpeakerProfile) is the        *)
(*    sequence of its profiles in dict insertion order.                    *)
(***************************************************************************)
EXTENDS Integers, Sequences, FiniteSets, TLC

VARIABLES
    sessions,     \* SessionSpeakerStore.sessions: session_id -> profiles
    disk,         \* persist_dir contents: session_id -> snapshot (.npz file)
    persist,      \* SessionSpeakerStore.persist_dir is set
    available,    \* SpeakerTracker.is_available (embedding model loaded)
    calls,        \* number of operations run so far (bounds the exploration)
    lastCall,     \* the most recent call: its inputs, per-label steps, result
    createdFor,   \* history: <<session, speaker_id, voice>> of each profile created
    labelled,     \* history: <<session, speaker label, voice>> given to output turns
    resolved,     \* history: per session, the (chunk, local label) pairs resolved
    eventLoop,    \* the asyncio event loop: its coroutines and the one running
    merge         \* _merge_results: its inputs and its result

vars == <<sessions, disk, persist, available, calls, lastCall, createdFor,
          labelled, resolved, eventLoop, merge>>

---------------------------------------------------------------------------
(* Bounds and input pools *)

MaxCalls == 2
MaxHint == 2

\* the session ids the store can hold
StoredSessionIds == {"m1", "m2"}

\* the session id of the calls on one session
SessionIds == {"m1"}
LocalLabels == {"A", "B"}
\* [start, end] of a diarization turn: 0.3 s, 0.5 s, 1.5 s, 1.5 s and 0.2 s long
Intervals == {<<0, 3>>, <<0, 5>>, <<5, 20>>, <<20, 35>>, <<40, 42>>}
\* what the Embedder can return for a turn.  Cosines: (1,0).(3,4) = 0.6,
\* (1,0).(1,-2) = 0.447, (3,4).(1,-2) = -0.447, (-1,0).(1,-2) = -0.447,
\* (-1,0).(3,4) = -0.6, (-1,0).(1,0) = -1
EmbedderVectors == {<<1, 0, 1>>, <<3, 4, 1>>, <<1, -2, 1>>, <<-1, 0, 1>>}
Hints == 0..MaxHint
\* the physical voices that speak in the chunks
Voices == {"v1", "v2"}

None == "None"
NoEmbedding == <<>>

---------------------------------------------------------------------------
(* Generic helpers *)

Abs(n) == IF n < 0 THEN -n ELSE n

RECURSIVE GCD(_, _)
GCD(a, b) == IF b = 0 THEN a ELSE GCD(b, a % b)

Range(s) == {s[i] : i \in 1..Len(s)}


---------------------------------------------------------------------------
(* Embedding arithmetic (numpy) *)

VecNorm(v) ==
    LET g == GCD(GCD(Abs(v[1]), Abs(v[2])), v[3])
    IN  <<v[1] \div g, v[2] \div g, v[3] \div g>>

VecAdd(a, b) == VecNorm(<<a[1] * b[3] + b[1] * a[3], a[2] * b[3] + b[2] * a[3], a[3] * b[3]>>)

RECURSIVE VecSum(_)
VecSum(es) == IF Len(es) = 1 THEN es[1] ELSE VecAdd(es[1], VecSum(Tail(es)))

\* np.mean(self.embeddings, axis=0); None when there is no embedding
Centroid(profile) ==
    IF profile.embeddings = <<>> THEN NoEmbedding
    ELSE LET s == VecSum(profile.embeddings)
         IN  VecNorm(<<s[1], s[2], s[3] * Len(profile.embeddings)>>)

SimZero == [sgn |-> 0, num |-> 0, den |-> 1]

\* cosine_similarity: 0.0 when a norm is zero, else dot / (norm_a * norm_b).
\* The positive denominators of the two vectors cancel.
CosineSimilarity(a, b) ==
    LET dot == a[1] * b[1] + a[2] * b[2]
        na  == a[1] * a[1] + a[2] * a[2]
        nb  == b[1] * b[1] + b[2] * b[2]
    IN  IF na = 0 \/ nb = 0 \/ dot = 0 THEN SimZero
        ELSE LET g == GCD(dot * dot, na * nb)
             IN  [sgn |-> IF dot > 0 THEN 1 ELSE -1,
                  num |-> (dot * dot) \div g,
                  den |-> (na * nb) \div g]

\* s1 > s2 on similarities
SimGreater(s1, s2) == s1.sgn * s1.num * s2.den > s2.sgn * s2.num * s1.den

SPEAKER_MATCH_THRESHOLD == 60   \* in hundredths
MIN_DURATION_TO_PERSIST == 15   \* in tenths of a second
MIN_DURATION_TO_EMBED == 5      \* in tenths of a second
max_embeddings == 50

\* similarity >= SPEAKER_MATCH_THRESHOLD
\* similarity > SPEAKER_MATCH_THRESHOLD, 0.60 itself excluded
SimAboveThreshold(s) ==
    /\ s.sgn = 1
    /\ s.num * 100 * 100 > SPEAKER_MATCH_THRESHOLD * SPEAKER_MATCH_THRESHOLD * s.den

SimAtLeastThreshold(s) ==
    /\ s.sgn = 1
    /\ s.num * 100 * 100 >= SPEAKER_MATCH_THRESHOLD * SPEAKER_MATCH_THRESHOLD * s.den

---------------------------------------------------------------------------
(* SpeakerProfile *)

NewProfile(speaker_id) ==
    [speaker_id |-> speaker_id, embeddings |-> <<>>, total_duration |-> 0, chunk_count |-> 0]

\* the list cut to its oldest max_embeddings entries
KeepOldest(embs) ==
    IF Len(embs) > max_embeddings THEN SubSeq(embs, 1, max_embeddings) ELSE embs

\* self.embeddings[-max_embeddings:] when the list is longer than max_embeddings
KeepRecent(embs) ==
    IF Len(embs) > max_embeddings
    THEN SubSeq(embs, Len(embs) - max_embeddings + 1, Len(embs))
    ELSE embs

add_embedding(profile, embedding, duration) ==
    [profile EXCEPT !.embeddings = KeepRecent(Append(@, embedding)),
                    !.total_duration = @ + duration,
                    !.chunk_count = @ + 1]

---------------------------------------------------------------------------
(* SessionSpeakerStore.  A store value st is [sessions, disk].              *)
(* st.sessions[s] is [loaded, profiles]: loaded says that s is a key of the *)
(* dict self.sessions.  st.disk[s] is [exists, entries]: whether the file   *)
(* <s>.npz exists and, per speaker, the arrays it holds.  use_disk says     *)
(* whether persist_dir is set.  ord is the iteration order of the Python    *)
(* set speaker_ids in _load_session, used only when a snapshot is loaded.   *)

NotLoaded == [loaded |-> FALSE, profiles |-> <<>>]
NoFile == [exists |-> FALSE, entries |-> {}]

ProfileIds(profiles) == {profiles[i].speaker_id : i \in 1..Len(profiles)}

ProfileIndex(profiles, speaker_id) ==
    CHOOSE i \in 1..Len(profiles) : profiles[i].speaker_id = speaker_id

\* a snapshot that keeps the most recent embedding in place of the centroid
SnapshotLastEmbedding(profiles) ==
    {[speaker_id |-> profiles[i].speaker_id,
      centroid |-> profiles[i].embeddings[Len(profiles[i].embeddings)],
      duration |-> profiles[i].total_duration,
      count |-> profiles[i].chunk_count] :
        i \in {j \in 1..Len(profiles) : Centroid(profiles[j]) # NoEmbedding}}

\* a snapshot that leaves out the first profile of the session
SnapshotWithoutFirst(profiles) ==
    {[speaker_id |-> profiles[i].speaker_id,
      centroid |-> Centroid(profiles[i]),
      duration |-> profiles[i].total_duration,
      count |-> profiles[i].chunk_count] :
        i \in {j \in 2..Len(profiles) : Centroid(profiles[j]) # NoEmbedding}}

\* the arrays np.savez writes: per speaker its centroid, duration and count
Snapshot(profiles) ==
    {[speaker_id |-> profiles[i].speaker_id,
      centroid |-> Centroid(profiles[i]),
      duration |-> profiles[i].total_duration,
      count |-> profiles[i].chunk_count] :
        i \in {j \in 1..Len(profiles) : Centroid(profiles[j]) # NoEmbedding}}

SnapshotIds(entries) == {e.speaker_id : e \in entries}

SnapshotEntry(entries, speaker_id) == CHOOSE e \in entries : e.speaker_id = speaker_id

\* the profiles _load_session builds from a snapshot, in the order ord
RECURSIVE LoadedProfiles(_, _)
LoadedProfiles(entries, ord) ==
    IF Len(ord) = 0 THEN <<>>
    ELSE LET e == SnapshotEntry(entries, Head(ord))
         IN  <<[speaker_id |-> Head(ord),
                embeddings |-> <<e.centroid>>,
                total_duration |-> e.duration,
                chunk_count |-> e.count]>> \o LoadedProfiles(entries, Tail(ord))

\* ord when np.load or the reading of an array raised
LoadError == <<"LoadError">>

\* a load that, having failed, still installs the profiles of the snapshot
LoadIgnoringError(st, use_disk, session_id, ord) ==
    IF ~use_disk \/ ~st.disk[session_id].exists THEN st
    ELSE [st EXCEPT !.sessions[session_id] =
             [loaded |-> TRUE,
              profiles |-> LoadedProfiles(st.disk[session_id].entries,
                              IF ord # LoadError THEN ord
                              ELSE CHOOSE o \in [1..Cardinality(st.disk[session_id].entries)
                                                   -> SnapshotIds(st.disk[session_id].entries)] :
                                       \A i, j \in DOMAIN o : o[i] = o[j] => i = j)]]

\* the exception is caught and logged before self.sessions[session_id] is set
_load_session(st, use_disk, session_id, ord) ==
    IF ~use_disk \/ ~st.disk[session_id].exists \/ ord = LoadError THEN st
    ELSE [st EXCEPT !.sessions[session_id] =
             [loaded |-> TRUE,
              profiles |-> LoadedProfiles(st.disk[session_id].entries, ord)]]

\* self.sessions[session_id] = {} when session_id is still not a key
\* a session created holding a placeholder profile for the first speaker
CreateWithPlaceholder(st, session_id) ==
    IF st.sessions[session_id].loaded THEN st
    ELSE [st EXCEPT !.sessions[session_id] =
             [loaded |-> TRUE, profiles |-> <<[speaker_id |-> "SPEAKER_00",
                                              embeddings |-> <<>>,
                                              total_duration |-> 0,
                                              chunk_count |-> 0]>>]]

CreateIfMissing(st, session_id) ==
    IF st.sessions[session_id].loaded THEN st
    ELSE [st EXCEPT !.sessions[session_id] = [loaded |-> TRUE, profiles |-> <<>>]]

\* the store after get_session(session_id); the profiles it returns are
\* then st.sessions[session_id].profiles
get_session(st, use_disk, session_id, ord) ==
    IF st.sessions[session_id].loaded THEN st
    ELSE CreateIfMissing(IF use_disk THEN _load_session(st, use_disk, session_id, ord)
                         ELSE st, session_id)

\* f"SPEAKER_{n}", without the padding to two digits
FormatUnpadded(n) == "SPEAKER_" \o ToString(n)

\* f"SPEAKER_{n:02d}"
FormatSpeakerId(n) == "SPEAKER_" \o (IF n < 10 THEN "0" ELSE "") \o ToString(n)

\* the identifier get_next_speaker_id returns
\* numbering from len(profiles) + 1
NextIdCountsFromOne(st, use_disk, session_id, ord) ==
    FormatSpeakerId(Len(get_session(st, use_disk, session_id, ord).sessions[session_id].profiles) + 1)

get_next_speaker_id(st, use_disk, session_id, ord) ==
    FormatSpeakerId(Len(get_session(st, use_disk, session_id, ord).sessions[session_id].profiles))

\* profiles[speaker_id] = SpeakerProfile(speaker_id) when speaker_id is no key
WithProfile(profiles, speaker_id) ==
    IF speaker_id \in ProfileIds(profiles) THEN profiles
    ELSE Append(profiles, NewProfile(speaker_id))

\* profiles[speaker_id].add_embedding(embedding, duration)
AddToProfile(profiles, speaker_id, embedding, duration) ==
    [profiles EXCEPT ![ProfileIndex(profiles, speaker_id)] =
        add_embedding(@, embedding, duration)]

\* add_speaker on a store that get_session has been applied to
AddSpeakerLoaded(st, session_id, speaker_id, embedding, duration) ==
    [st EXCEPT !.sessions[session_id].profiles =
        AddToProfile(WithProfile(@, speaker_id), speaker_id, embedding, duration)]

add_speaker(st, use_disk, session_id, speaker_id, embedding, duration, ord) ==
    AddSpeakerLoaded(get_session(st, use_disk, session_id, ord), session_id, speaker_id,
                     embedding, duration)

\* a save that writes the snapshot file only when the session has none yet
SaveOnce(st, session_id) ==
    IF st.sessions[session_id].profiles = <<>> \/ st.disk[session_id].exists THEN st
    ELSE [st EXCEPT !.disk[session_id] =
             [exists |-> TRUE, entries |-> Snapshot(st.sessions[session_id].profiles)]]

\* save_session on a store that get_session has been applied to
SaveLoaded(st, session_id) ==
    IF st.sessions[session_id].profiles = <<>> THEN st
    ELSE [st EXCEPT !.disk[session_id] =
             [exists |-> TRUE, entries |-> Snapshot(st.sessions[session_id].profiles)]]

save_session(st, use_disk, session_id, ord) ==
    IF ~use_disk THEN st
    ELSE SaveLoaded(get_session(st, use_disk, session_id, ord), session_id)

\* the session dropped from memory only, its snapshot file kept
ClearMemoryOnly(st, use_disk, session_id) ==
    [sessions |-> [st.sessions EXCEPT ![session_id] = NotLoaded], disk |-> st.disk]

clear_session(st, use_disk, session_id) ==
    [sessions |-> [st.sessions EXCEPT ![session_id] = NotLoaded],
     disk |-> IF use_disk THEN [st.disk EXCEPT ![session_id] = NoFile] ELSE st.disk]

---------------------------------------------------------------------------
(* SpeakerTracker *)

\* find_matching_speaker's scan of profiles[i..]: best is [id, sim] so far
RECURSIVE ScanProfiles(_, _, _, _)
ScanProfiles(profiles, i, embedding, best) ==
    IF i > Len(profiles) THEN best
    ELSE LET centroid == Centroid(profiles[i])
             similarity == CosineSimilarity(embedding, centroid)
         IN  IF centroid = NoEmbedding THEN ScanProfiles(profiles, i + 1, embedding, best)
             ELSE IF SimGreater(similarity, best.sim)
                  THEN ScanProfiles(profiles, i + 1, embedding,
                                    [id |-> profiles[i].speaker_id, sim |-> similarity])
                  ELSE ScanProfiles(profiles, i + 1, embedding, best)

\* (best_match, best_similarity) over the profiles of the session
find_matching_speaker(profiles, embedding) ==
    ScanProfiles(profiles, 1, embedding, [id |-> None, sim |-> SimZero])

TurnDuration(turn) == turn.end - turn.start

\* the local labels of the turns, in order of first appearance (the key
\* order of the dict local_speaker_turns)
RECURSIVE LabelOrder(_)
LabelOrder(turns) ==
    IF turns = <<>> THEN <<>>
    ELSE LET rest == LabelOrder(SubSeq(turns, 1, Len(turns) - 1))
             l == turns[Len(turns)].speaker
         IN  IF l \in Range(rest) THEN rest ELSE Append(rest, l)

TurnsOf(turns, local_label) == SelectSeq(turns, LAMBDA t : t.speaker = local_label)

\* max(turns, key=duration): the first turn of greatest duration
BestTurn(turns) ==
    LET i == CHOOSE k \in 1..Len(turns) :
                /\ \A j \in 1..Len(turns) : TurnDuration(turns[j]) <= TurnDuration(turns[k])
                /\ \A j \in 1..(k - 1) : TurnDuration(turns[j]) < TurnDuration(turns[k])
    IN  turns[i]

\* duration < 0.5
\* duration <= 0.5
IsShortInclusive(duration) == duration <= MIN_DURATION_TO_EMBED

IsShort(duration) == duration < MIN_DURATION_TO_EMBED

\* match_id and similarity >= SPEAKER_MATCH_THRESHOLD
IsMatch(match_id, similarity) == match_id # None /\ SimAtLeastThreshold(similarity)

\* num_speakers and len(profiles) > num_speakers
OverSpeakerLimit(num_speakers, count) == num_speakers # 0 /\ count > num_speakers

\* the limit taken as reached whenever a hint is given
HintGiven(num_speakers, count) == num_speakers # 0

\* num_speakers and len(profiles) >= num_speakers
AtSpeakerLimit(num_speakers, count) == num_speakers # 0 /\ count >= num_speakers

\* duration > MIN_DURATION_TO_PERSIST
PersistAboveMinimum(duration) == duration > MIN_DURATION_TO_PERSIST

\* duration >= MIN_DURATION_TO_PERSIST
ShouldPersist(duration) == duration >= MIN_DURATION_TO_PERSIST

\* The record of one iteration of assign_speakers' loop: the label, its
\* representative turn, the Embedder's answer, the profiles before (pre) and
\* after (post), the best match, the branch taken and the label mapped to.
StepRecord(st1, st2, session_id, local_label, best_turn, embed_called, embedding, found, branch, mapped) ==
    [st |-> st2,
     step |-> [label |-> local_label, best_turn |-> best_turn,
               duration |-> TurnDuration(best_turn),
               embed_called |-> embed_called, embedding |-> embedding,
               pre |-> st1.sessions[session_id].profiles,
               match_id |-> found.id, similarity |-> found.sim,
               branch |-> branch, mapped |-> mapped,
               post |-> st2.sessions[session_id].profiles]]

NotFound == [id |-> None, sim |-> SimZero]

\* label_mapping[local_label] = local_label; continue
\* the label mapped to the first stable identifier instead of being kept
PassthroughAsFirstSpeaker(st, session_id, local_label, best_turn, embed_called, branch) ==
    StepRecord(st, st, session_id, local_label, best_turn, embed_called, NoEmbedding,
               NotFound, branch, FormatSpeakerId(0))

Passthrough(st, session_id, local_label, best_turn, embed_called, branch) ==
    StepRecord(st, st, session_id, local_label, best_turn, embed_called, NoEmbedding,
               NotFound, branch, local_label)

\* the branch "Found a match - use existing speaker ID"
MatchBranch(st1, use_disk, session_id, ord, local_label, best_turn, embedding, found) ==
    StepRecord(st1,
               IF ShouldPersist(TurnDuration(best_turn))
               THEN add_speaker(st1, use_disk, session_id, found.id, embedding,
                                TurnDuration(best_turn), ord)
               ELSE st1,
               session_id, local_label, best_turn, TRUE, embedding, found, "match", found.id)

\* the branch "At limit - assign to best match even if below threshold"
LimitBranch(st1, session_id, local_label, best_turn, embedding, found) ==
    IF found.id # None
    THEN StepRecord(st1, st1, session_id, local_label, best_turn, TRUE, embedding, found,
                    "forced", found.id)
    ELSE StepRecord(st1, st1, session_id, local_label, best_turn, TRUE, embedding, found,
                    "sentinel", FormatSpeakerId(0))

\* the branch "New speaker", new_id being what get_next_speaker_id returned
NewSpeakerBranch(st1, use_disk, session_id, ord, local_label, best_turn, embedding, found, new_id) ==
    StepRecord(st1,
               IF ShouldPersist(TurnDuration(best_turn))
               THEN add_speaker(st1, use_disk, session_id, new_id, embedding,
                                TurnDuration(best_turn), ord)
               ELSE st1,
               session_id, local_label, best_turn, TRUE, embedding, found, "new", new_id)

\* the branching on (match_id, similarity) = found, on the store st1 that
\* find_matching_speaker's get_session left
Resolve(st1, use_disk, session_id, num_speakers, ord, local_label, best_turn, embedding, found) ==
    IF IsMatch(found.id, found.sim)
    THEN MatchBranch(st1, use_disk, session_id, ord, local_label, best_turn, embedding, found)
    ELSE IF AtSpeakerLimit(num_speakers, Len(st1.sessions[session_id].profiles))
    THEN LimitBranch(st1, session_id, local_label, best_turn, embedding, found)
    ELSE NewSpeakerBranch(st1, use_disk, session_id, ord, local_label, best_turn, embedding,
                          found, get_next_speaker_id(st1, use_disk, session_id, ord))

\* the profiles of every session of the store, one session after the other
RECURSIVE ProfilesOfAll(_, _)
ProfilesOfAll(st, ids) ==
    IF ids = {} THEN <<>>
    ELSE LET s == CHOOSE x \in ids : TRUE
         IN  st.sessions[s].profiles \o ProfilesOfAll(st, ids \ {s})

\* the best match searched among the profiles of all sessions
MatchAcrossSessions(st1, use_disk, session_id, num_speakers, ord, local_label, best_turn, embedding) ==
    Resolve(st1, use_disk, session_id, num_speakers, ord, local_label, best_turn, embedding,
            find_matching_speaker(ProfilesOfAll(st1, DOMAIN st1.sessions), embedding))

\* from the call of find_matching_speaker on
MatchAndResolve(st1, use_disk, session_id, num_speakers, ord, local_label, best_turn, embedding) ==
    Resolve(st1, use_disk, session_id, num_speakers, ord, local_label, best_turn, embedding,
            find_matching_speaker(st1.sessions[session_id].profiles, embedding))

\* from the result of extract_embedding on
Embedded(st, use_disk, session_id, num_speakers, ord, local_label, best_turn, embedding) ==
    IF embedding = NoEmbedding
    THEN Passthrough(st, session_id, local_label, best_turn, TRUE, "no_embedding")
    ELSE MatchAndResolve(get_session(st, use_disk, session_id, ord), use_disk, session_id,
                         num_speakers, ord, local_label, best_turn, embedding)

\* from the choice of best_turn on.  embedder maps the [start, end] it is
\* asked about to what extract_embedding returns.
Gate(st, use_disk, session_id, embedder, num_speakers, ord, local_label, best_turn) ==
    IF IsShort(TurnDuration(best_turn))
    THEN Passthrough(st, session_id, local_label, best_turn, FALSE, "short")
    ELSE Embedded(st, use_disk, session_id, num_speakers, ord, local_label, best_turn,
                  embedder[<<best_turn.start, best_turn.end>>])

\* One iteration of assign_speakers' loop over local_speaker_turns, for
\* local_label: the store afterwards and the record of the step.
ProcessLabel(st, use_disk, session_id, turns, embedder, num_speakers, ord, local_label) ==
    Gate(st, use_disk, session_id, embedder, num_speakers, ord, local_label,
         BestTurn(TurnsOf(turns, local_label)))

\* the loop over local_speaker_turns: labels still to do, on acc = [st, steps]
RECURSIVE LabelLoop(_, _, _, _, _, _, _, _)
LoopStep(acc, r) == [st |-> r.st, steps |-> Append(acc.steps, r.step)]

LabelLoop(acc, use_disk, session_id, turns, embedder, num_speakers, ord, labels) ==
    IF labels = <<>> THEN acc
    ELSE LabelLoop(LoopStep(acc, ProcessLabel(acc.st, use_disk, session_id, turns, embedder,
                                              num_speakers, ord, Head(labels))),
                   use_disk, session_id, turns, embedder, num_speakers, ord, Tail(labels))

\* label_mapping.get(label, label)
MappedLabel(steps, label) ==
    IF \E i \in 1..Len(steps) : steps[i].label = label
    THEN steps[CHOOSE i \in 1..Len(steps) : steps[i].label = label].mapped
    ELSE label

\* assign_speakers from "Apply mapping to all turns" on
Finish(loop, use_disk, session_id, turns, ord) ==
    [st |-> save_session(loop.st, use_disk, session_id, ord),
     turns |-> [i \in 1..Len(turns) |->
                   [turns[i] EXCEPT !.speaker = MappedLabel(loop.steps, @)]],
     steps |-> loop.steps, ran |-> TRUE]

\* Finish when np.savez raises: save_session has called get_session, the
\* exception is caught and logged, the file is as it was
FinishUnsaved(acc, use_disk, session_id, turns, ord) ==
    [Finish(acc, use_disk, session_id, turns, ord) EXCEPT
        !.st = IF use_disk THEN get_session(acc.st, use_disk, session_id, ord) ELSE acc.st]

\* assign_speakers when np.savez raises
AssignSaveFailing(st, use_disk, is_available, session_id, turns, embedder, num_speakers, ord) ==
    IF ~is_available \/ turns = <<>>
    THEN [st |-> st, turns |-> turns, steps |-> <<>>, ran |-> FALSE]
    ELSE FinishUnsaved(LabelLoop([st |-> st, steps |-> <<>>], use_disk, session_id, turns,
                                 embedder, num_speakers, ord, LabelOrder(turns)),
                       use_disk, session_id, turns, ord)

\* assign_speakers returning early only when the tracker is unavailable
AssignWithoutEmptyCheck(st, use_disk, is_available, session_id, turns, embedder, num_speakers, ord) ==
    IF ~is_available
    THEN [st |-> st, turns |-> turns, steps |-> <<>>, ran |-> FALSE]
    ELSE Finish(LabelLoop([st |-> st, steps |-> <<>>], use_disk, session_id, turns,
                          embedder, num_speakers, ord, LabelOrder(turns)),
                use_disk, session_id, turns, ord)

\* assign_speakers: the store afterwards, the turns returned, the loop's steps
assign_speakers(st, use_disk, is_available, session_id, turns, embedder, num_speakers, ord) ==
    IF ~is_available \/ turns = <<>>
    THEN [st |-> st, turns |-> turns, steps |-> <<>>, ran |-> FALSE]
    ELSE Finish(LabelLoop([st |-> st, steps |-> <<>>], use_disk, session_id, turns,
                          embedder, num_speakers, ord, LabelOrder(turns)),
                use_disk, session_id, turns, ord)

---------------------------------------------------------------------------
(* Inputs of a call *)

Turn(l, iv) == [speaker |-> l, start |-> iv[1], end |-> iv[2]]

\* The turn lists a Diarizer call returns for a chunk.  Local labels are
\* opaque to the tracker, so the label that appears first is always "A".
OneLabelPairs ==
    {<<<<0, 3>>, <<0, 5>>>>, <<<<0, 5>>, <<0, 3>>>>, <<<<0, 3>>, <<5, 20>>>>,
     <<<<5, 20>>, <<20, 35>>>>, <<<<20, 35>>, <<5, 20>>>>, <<<<0, 3>>, <<40, 42>>>>}
TwoLabelPairs ==
    {<<<<5, 20>>, <<20, 35>>>>, <<<<0, 5>>, <<5, 20>>>>, <<<<5, 20>>, <<0, 5>>>>,
     <<<<0, 3>>, <<5, 20>>>>, <<<<5, 20>>, <<0, 3>>>>, <<<<0, 3>>, <<0, 5>>>>}
Chunks ==
    {<<>>} \cup {<<Turn("A", iv)>> : iv \in Intervals}
           \cup {<<Turn("A", p[1]), Turn("A", p[2])>> : p \in OneLabelPairs}
           \cup {<<Turn("A", p[1]), Turn("B", p[2])>> : p \in TwoLabelPairs}

\* the intervals assign_speakers asks the Embedder about
EmbedCalls(turns) ==
    {<<t.start, t.end>> : t \in {BestTurn(TurnsOf(turns, l)) : l \in Range(LabelOrder(turns))}}
        \cap {iv \in Intervals : ~(iv[2] - iv[1] < MIN_DURATION_TO_EMBED)}

\* the Embedder of one chunk: what it returns for each interval asked about
Embedders(is_available, turns) ==
    IF is_available
    THEN [EmbedCalls(turns) -> EmbedderVectors \cup {NoEmbedding}]
    ELSE {<<>>}

OrdersOf(S) == {f \in [1..Cardinality(S) -> S] : \A i, j \in DOMAIN f : f[i] = f[j] => i = j}

\* the orders in which _load_session can iterate over a snapshot's speakers
LoadOrders(st, use_disk, session_id) ==
    IF use_disk /\ ~st.sessions[session_id].loaded /\ st.disk[session_id].exists
    THEN OrdersOf(SnapshotIds(st.disk[session_id].entries))
    ELSE {<<>>}

Store == [sessions |-> sessions, disk |-> disk]

Held(ss, session_id) == ss[session_id].profiles

NoCall == [op |-> "none"]

\* Requests are coroutines of one event loop.  eventLoop.tasks[t] is request
\* t: what it is (kind), its session, where it is (pc) and, for
\* process_audio, the diarization turns and the labels assign_speakers still
\* has to go through.  eventLoop.running is the coroutine that holds the
\* thread, 0 if none.
MaxTasks == 2
Tasks == 1..MaxTasks
NoTask == [kind |-> "none", session_id |-> None, pc |-> "idle", turns |-> <<>>,
           embedder |-> <<>>, labels |-> <<>>]
IdleLoop == [running |-> 0, tasks |-> [t \in Tasks |-> NoTask]]
NoMerge == [segments |-> <<>>, turns |-> <<>>, done |-> FALSE, merged |-> <<>>]

---------------------------------------------------------------------------
(* The tracker as a state machine *)

TrackerInit ==
    /\ sessions = [s \in StoredSessionIds |-> NotLoaded]
    /\ disk = [s \in StoredSessionIds |-> NoFile]
    /\ persist \in BOOLEAN
    /\ available \in BOOLEAN
    /\ calls = 0
    /\ lastCall = NoCall
    /\ createdFor = {}
    /\ labelled = {}
    /\ resolved = [s \in StoredSessionIds |-> 0]
    /\ eventLoop = IdleLoop
    /\ merge = NoMerge

Init == TrackerInit

\* before: the profiles get_session returns for the session when the call starts
CallRecord(session_id, turns, embedder, num_speakers, ord, r) ==
    [op |-> "assign_speakers", session_id |-> session_id, turns |-> turns,
     embedder |-> embedder, num_speakers |-> num_speakers,
     before |-> Held(get_session(Store, persist, session_id, ord).sessions, session_id),
     sessions_before |-> sessions, disk_before |-> disk,
     sessions_after |-> r.st.sessions, disk_after |-> r.st.disk,
     ran |-> r.ran, steps |-> r.steps, result |-> r.turns,
     after |-> Held(r.st.sessions, session_id)]

\* SpeakerTracker.assign_speakers(session_id, audio_path, turns, num_speakers)
AssignSpeakers ==
    /\ calls < MaxCalls
    /\ lastCall = NoCall
    /\ \E session_id \in SessionIds, turns \in Chunks, num_speakers \in Hints :
       \E embedder \in Embedders(available, turns),
          ord \in LoadOrders(Store, persist, session_id) :
          LET r == assign_speakers(Store, persist, available, session_id, turns,
                                   embedder, num_speakers, ord)
          IN  /\ sessions' = r.st.sessions
              /\ disk' = r.st.disk
              /\ lastCall' = CallRecord(session_id, turns, embedder, num_speakers, ord, r)
    /\ calls' = calls + 1
    /\ UNCHANGED <<persist, available, createdFor, labelled, resolved,
                   eventLoop, merge>>

\* The service process restarts: a new SessionSpeakerStore is constructed
\* over the same persist_dir.
Restart ==
    /\ lastCall = NoCall
    /\ \E s \in StoredSessionIds : sessions[s].loaded
    /\ persist
    /\ sessions' = [s \in StoredSessionIds |-> NotLoaded]
    /\ lastCall' = [op |-> "restart", dropped |-> sessions]
    /\ UNCHANGED <<disk, persist, available, calls, createdFor, labelled,
                   resolved, eventLoop, merge>>

\* The caller has consumed the result of the most recent call.
Return ==
    /\ lastCall # NoCall
    /\ lastCall' = NoCall
    /\ UNCHANGED <<sessions, disk, persist, available, calls, createdFor, labelled,
                   resolved, eventLoop, merge>>

Next == AssignSpeakers \/ Restart \/ Return

Spec == Init /\ [][Next]_vars

---------------------------------------------------------------------------
(* The session endpoints, and calls on several sessions.                    *)

\* [{"speaker_id": ..., "total_duration": ..., "chunk_count": ...} for ... in profiles.items()]
RECURSIVE SpeakerSummaries(_)
SpeakerSummaries(profiles) ==
    IF profiles = <<>> THEN <<>>
    ELSE <<[speaker_id |-> Head(profiles).speaker_id,
            total_duration |-> Head(profiles).total_duration,
            chunk_count |-> Head(profiles).chunk_count]>>
         \o SpeakerSummaries(Tail(profiles))

\* SpeakerTracker.get_session_speakers: the store afterwards, the profiles
\* get_session returned and their summaries
Summarized(st, session_id) ==
    [st |-> st, profiles |-> st.sessions[session_id].profiles,
     speakers |-> SpeakerSummaries(st.sessions[session_id].profiles)]

get_session_speakers(st, use_disk, session_id, ord) ==
    Summarized(get_session(st, use_disk, session_id, ord), session_id)

\* the response of GET /session/{session_id}/speakers
SpeakersRecord(initialized, session_id, r) ==
    [op |-> "get_session_speakers", session_id |-> session_id,
     initialized |-> initialized, prev |-> lastCall,
     sessions_before |-> sessions, disk_before |-> disk,
     sessions_after |-> r.st.sessions, disk_after |-> r.st.disk,
     status |-> 200, profiles |-> r.profiles, speakers |-> r.speakers,
     speaker_count |-> Len(r.speakers)]

\* raise HTTPException(status_code=503, detail="Service not initialized")
NotInitialized(op, session_id) ==
    [op |-> op, session_id |-> session_id, initialized |-> FALSE, prev |-> lastCall,
     sessions_before |-> sessions, disk_before |-> disk,
     sessions_after |-> sessions, disk_after |-> disk, status |-> 503]

\* GET /session/{session_id}/speakers, possibly right after a DELETE or a restart
GetSessionSpeakers ==
    /\ lastCall.op \in {"none", "clear_session", "restart"}
    /\ \E session_id \in StoredSessionIds, initialized \in BOOLEAN :
       \E ord \in LoadOrders(Store, persist, session_id) :
          IF ~initialized
          THEN /\ lastCall' = NotInitialized("get_session_speakers", session_id)
               /\ UNCHANGED <<sessions, disk>>
          ELSE LET r == get_session_speakers(Store, persist, session_id, ord)
               IN  /\ sessions' = r.st.sessions
                   /\ disk' = r.st.disk
                   /\ lastCall' = SpeakersRecord(initialized, session_id, r)
    /\ UNCHANGED <<persist, available, calls, createdFor, labelled, resolved,
                   eventLoop, merge>>

\* the response of DELETE /session/{session_id}
ClearedRecord(session_id, st) ==
    [op |-> "clear_session", session_id |-> session_id, initialized |-> TRUE,
     prev |-> lastCall, sessions_before |-> sessions, disk_before |-> disk,
     sessions_after |-> st.sessions, disk_after |-> st.disk, status |-> 200]

\* DELETE /session/{session_id}
ClearSession ==
    /\ lastCall = NoCall
    /\ \E session_id \in StoredSessionIds, initialized \in BOOLEAN :
          IF ~initialized
          THEN /\ lastCall' = NotInitialized("clear_session", session_id)
               /\ UNCHANGED <<sessions, disk>>
          ELSE /\ sessions' = clear_session(Store, persist, session_id).sessions
               /\ disk' = clear_session(Store, persist, session_id).disk
               /\ lastCall' = ClearedRecord(session_id, clear_session(Store, persist, session_id))
    /\ UNCHANGED <<persist, available, calls, createdFor, labelled, resolved,
                   eventLoop, merge>>

\* the chunks of the calls on several sessions
SessionChunks ==
    {<<>>, <<Turn("A", <<0, 5>>)>>, <<Turn("A", <<5, 20>>)>>,
     <<Turn("A", <<5, 20>>), Turn("B", <<20, 35>>)>>}

\* SpeakerTracker.assign_speakers(session_id, audio_path, turns, num_speakers),
\* on any session
AssignSpeakersIn ==
    /\ calls < MaxCalls
    /\ lastCall = NoCall
    /\ \E session_id \in StoredSessionIds, turns \in SessionChunks, num_speakers \in Hints :
       \E embedder \in Embedders(available, turns),
          ord \in LoadOrders(Store, persist, session_id) :
          LET r == assign_speakers(Store, persist, available, session_id, turns,
                                   embedder, num_speakers, ord)
          IN  /\ sessions' = r.st.sessions
              /\ disk' = r.st.disk
              /\ lastCall' = CallRecord(session_id, turns, embedder, num_speakers, ord, r)
    /\ calls' = calls + 1
    /\ UNCHANGED <<persist, available, createdFor, labelled, resolved,
                   eventLoop, merge>>

NextSessions == AssignSpeakersIn \/ GetSessionSpeakers \/ ClearSession \/ Restart \/ Return

SpecSessions == Init /\ [][NextSessions]_vars

\* a call of assign_speakers on any session; resolved counts, per session,
\* the local labels the loop over local_speaker_turns has gone through, one
\* (chunk, local label) pair each
AssignSpeakersCounted ==
    /\ calls < MaxCalls
    /\ lastCall = NoCall
    /\ \E session_id \in StoredSessionIds, turns \in SessionChunks, num_speakers \in Hints :
       \E embedder \in Embedders(available, turns),
          ord \in LoadOrders(Store, persist, session_id) :
          LET r == assign_speakers(Store, persist, available, session_id, turns,
                                   embedder, num_speakers, ord)
          IN  /\ sessions' = r.st.sessions
              /\ disk' = r.st.disk
              /\ lastCall' = CallRecord(session_id, turns, embedder, num_speakers, ord, r)
              /\ resolved' = [resolved EXCEPT ![session_id] = @ + Len(r.steps)]
    /\ calls' = calls + 1
    /\ UNCHANGED <<persist, available, createdFor, labelled, eventLoop, merge>>

\* a call of assign_speakers during which the load of the snapshot, the
\* save, both or none fail
AssignSpeakersFaulty ==
    /\ calls < MaxCalls
    /\ lastCall = NoCall
    /\ \E session_id \in SessionIds, turns \in SessionChunks, num_speakers \in Hints,
          save_ok \in BOOLEAN :
       \E embedder \in Embedders(available, turns),
          ord \in LoadOrders(Store, persist, session_id) \cup {LoadError} :
          LET r == IF save_ok
                   THEN assign_speakers(Store, persist, available, session_id, turns,
                                        embedder, num_speakers, ord)
                   ELSE AssignSaveFailing(Store, persist, available, session_id, turns,
                                          embedder, num_speakers, ord)
          IN  /\ sessions' = r.st.sessions
              /\ disk' = r.st.disk
              /\ lastCall' = [op |-> "assign_speakers_faulty",
                              load_error |-> ord = LoadError, save_error |-> ~save_ok,
                              ord |-> ord,
                              call |-> CallRecord(session_id, turns, embedder,
                                                  num_speakers, ord, r)]
    /\ calls' = calls + 1
    /\ UNCHANGED <<persist, available, createdFor, labelled, resolved,
                   eventLoop, merge>>

NextFaults == AssignSpeakersFaulty \/ Restart \/ Return

SpecFaults == Init /\ [][NextFaults]_vars

NextGrowth ==
    AssignSpeakersCounted \/ GetSessionSpeakers \/ ClearSession \/ Restart \/ Return

SpecGrowth == Init /\ [][NextGrowth]_vars

---------------------------------------------------------------------------
(* Many insertions into one profile.  calls counts the insertions; the n-th *)
(* insertion carries the embedding Voice(n), so that the place of an        *)
(* embedding in the list tells which insertion it came from.                *)

MaxInsertions == 53

Voice(n) == <<n, 1, 1>>

\* add_speaker is reached with duration >= MIN_DURATION_TO_PERSIST only
InsertDurations == {MIN_DURATION_TO_PERSIST, MIN_DURATION_TO_PERSIST + 5}

\* SessionSpeakerStore.add_speaker(session_id, "SPEAKER_00", embedding, duration)
InsertEmbedding ==
    /\ calls < MaxInsertions
    /\ \E session_id \in SessionIds, duration \in InsertDurations :
       \E ord \in LoadOrders(Store, persist, session_id) :
          LET st == add_speaker(Store, persist, session_id, FormatSpeakerId(0),
                                Voice(calls + 1), duration, ord)
          IN  /\ sessions' = st.sessions
              /\ disk' = st.disk
              /\ lastCall' = [op |-> "add_speaker", session_id |-> session_id,
                              embedding |-> Voice(calls + 1), duration |-> duration,
                              total |-> duration + (IF lastCall = NoCall THEN 0
                                                    ELSE lastCall.total),
                              after |-> Held(st.sessions, session_id)]
    /\ calls' = calls + 1
    /\ UNCHANGED <<persist, available, createdFor, labelled, resolved,
                   eventLoop, merge>>

NextInsertions == InsertEmbedding

SpecInsertions == Init /\ [][NextInsertions]_vars

---------------------------------------------------------------------------
(* Concurrent requests.  Every handler is an `async def` run by the one     *)
(* event loop of the uvicorn process: a coroutine keeps the thread until it *)
(* reaches an await or returns.  process_audio awaits the transcription;    *)
(* the conversion, the diarization, assign_speakers and _merge_results are  *)
(* plain calls.  pc of a request:                                           *)
(*   idle -> await_transcribe -> diarize -> in_resolver -> merge -> done    *)
(*   idle -> in_handler -> done            (GET speakers, DELETE session)   *)

\* a coroutine that would also be suspended inside assign_speakers
AwaitsInResolver(pc) == pc \in {"await_transcribe", "in_resolver"}

\* the coroutine is suspended at an await when at pc
Awaits(pc) == pc = "await_transcribe"

\* the event loop can run the next step of request t
MayRun(t) ==
    \/ eventLoop.running = t
    \/ /\ eventLoop.running = 0
       /\ eventLoop.tasks[t].pc = "idle" \/ Awaits(eventLoop.tasks[t].pc)

\* the loop once request t has become task: the thread is given up at an
\* await and at the end of the coroutine
Moved(t, task) ==
    [running |-> IF Awaits(task.pc) \/ task.pc = "done" THEN 0 ELSE t,
     tasks |-> [eventLoop.tasks EXCEPT ![t] = task]]

ConcurrentChunks ==
    {<<>>, <<Turn("A", <<5, 20>>)>>, <<Turn("A", <<5, 20>>), Turn("B", <<20, 35>>)>>}

ConcurrentEmbedders(turns) ==
    [EmbedCalls(turns) -> {<<1, 0, 1>>, <<-1, 0, 1>>, NoEmbedding}]

\* process_audio up to `await self.whisper_client.transcribe(audio_path)`
ProcessAudioStart ==
    \E t \in Tasks :
        /\ eventLoop.tasks[t].pc = "idle" /\ MayRun(t)
        /\ \E session_id \in StoredSessionIds :
              eventLoop' = Moved(t, [NoTask EXCEPT !.kind = "process_audio",
                                                   !.session_id = session_id,
                                                   !.pc = "await_transcribe"])
        /\ UNCHANGED <<sessions, disk, persist, available, calls, lastCall,
                       createdFor, labelled, resolved, merge>>

\* the transcription arrives: `return []` on no segment, else step 2
Transcribed ==
    \E t \in Tasks :
        /\ eventLoop.tasks[t].pc = "await_transcribe" /\ MayRun(t)
        /\ \E transcribed \in BOOLEAN :
              eventLoop' = Moved(t, [eventLoop.tasks[t] EXCEPT
                                        !.pc = IF transcribed THEN "diarize" ELSE "done"])
        /\ UNCHANGED <<sessions, disk, persist, available, calls, lastCall,
                       createdFor, labelled, resolved, merge>>

\* step 2: conversion and get_speaker_turns; turns is empty when the
\* diarization is off, unavailable, skipped or finds nobody.  Step 2b is
\* entered when the tracker is available and there are turns.
RunDiarization ==
    \E t \in Tasks :
        /\ eventLoop.tasks[t].pc = "diarize" /\ MayRun(t)
        /\ \E turns \in ConcurrentChunks :
           \E embedder \in ConcurrentEmbedders(turns) :
              eventLoop' = Moved(t, [eventLoop.tasks[t] EXCEPT
                                        !.pc = IF available /\ turns # <<>>
                                               THEN "in_resolver" ELSE "merge",
                                        !.turns = turns,
                                        !.embedder = embedder,
                                        !.labels = LabelOrder(turns)])
        /\ UNCHANGED <<sessions, disk, persist, available, calls, lastCall,
                       createdFor, labelled, resolved, merge>>

\* one iteration of assign_speakers' loop over local_speaker_turns
ResolveLabel ==
    \E t \in Tasks :
        /\ eventLoop.tasks[t].pc = "in_resolver" /\ MayRun(t)
        /\ eventLoop.tasks[t].labels # <<>>
        /\ \E ord \in LoadOrders(Store, persist, eventLoop.tasks[t].session_id) :
              LET task == eventLoop.tasks[t]
                  r == ProcessLabel(Store, persist, task.session_id, task.turns, task.embedder,
                                    0, ord, Head(task.labels))
              IN  /\ sessions' = r.st.sessions
                  /\ disk' = r.st.disk
                  /\ eventLoop' = Moved(t, [task EXCEPT !.labels = Tail(@)])
        /\ UNCHANGED <<persist, available, calls, lastCall, createdFor, labelled,
                       resolved, merge>>

\* the end of assign_speakers: self.store.save_session(session_id)
SaveSession ==
    \E t \in Tasks :
        /\ eventLoop.tasks[t].pc = "in_resolver" /\ MayRun(t)
        /\ eventLoop.tasks[t].labels = <<>>
        /\ \E ord \in LoadOrders(Store, persist, eventLoop.tasks[t].session_id) :
              LET st == save_session(Store, persist, eventLoop.tasks[t].session_id, ord)
              IN  /\ sessions' = st.sessions
                  /\ disk' = st.disk
                  /\ eventLoop' = Moved(t, [eventLoop.tasks[t] EXCEPT !.pc = "merge"])
        /\ UNCHANGED <<persist, available, calls, lastCall, createdFor, labelled,
                       resolved, merge>>

\* step 3 and the return of process_audio
Deliver ==
    \E t \in Tasks :
        /\ eventLoop.tasks[t].pc = "merge" /\ MayRun(t)
        /\ eventLoop' = Moved(t, [eventLoop.tasks[t] EXCEPT !.pc = "done"])
        /\ UNCHANGED <<sessions, disk, persist, available, calls, lastCall,
                       createdFor, labelled, resolved, merge>>

\* GET /session/{session_id}/speakers or DELETE /session/{session_id}: the
\* handler has gone through the store and is about to answer
\* lastCall remembers the most recent DELETE: the requests that were waiting
\* for their transcription when it ran, and those not yet received
SessionRequest ==
    \E t \in Tasks :
        /\ eventLoop.tasks[t].pc = "idle" /\ MayRun(t)
        /\ \E session_id \in StoredSessionIds, kind \in {"get_session_speakers", "clear_session"} :
           \E ord \in LoadOrders(Store, persist, session_id) :
              LET st == IF kind = "clear_session"
                        THEN clear_session(Store, persist, session_id)
                        ELSE get_session_speakers(Store, persist, session_id, ord).st
              IN  /\ sessions' = st.sessions
                  /\ disk' = st.disk
                  /\ eventLoop' = Moved(t, [NoTask EXCEPT !.kind = kind,
                                                          !.session_id = session_id,
                                                          !.pc = "in_handler"])
                  /\ lastCall' =
                        IF kind = "clear_session"
                        THEN [op |-> "delete_session", session_id |-> session_id, task |-> t,
                              in_flight |-> {u \in Tasks :
                                  /\ eventLoop.tasks[u].kind = "process_audio"
                                  /\ eventLoop.tasks[u].session_id = session_id
                                  /\ eventLoop.tasks[u].pc = "await_transcribe"},
                              not_received |-> {u \in Tasks \ {t} :
                                  eventLoop.tasks[u].pc = "idle"}]
                        ELSE lastCall
        /\ UNCHANGED <<persist, available, calls, createdFor, labelled, resolved, merge>>

\* the handler returns its response
Respond ==
    \E t \in Tasks :
        /\ eventLoop.tasks[t].pc = "in_handler" /\ MayRun(t)
        /\ eventLoop' = Moved(t, [eventLoop.tasks[t] EXCEPT !.pc = "done"])
        /\ UNCHANGED <<sessions, disk, persist, available, calls, lastCall,
                       createdFor, labelled, resolved, merge>>

NextConcurrent ==
    \/ ProcessAudioStart \/ Transcribed \/ RunDiarization \/ ResolveLabel
    \/ SaveSession \/ Deliver \/ SessionRequest \/ Respond

SpecConcurrent == Init /\ [][NextConcurrent]_vars

---------------------------------------------------------------------------
(* AudioProcessor._merge_results.  A text is a sequence of characters.      *)

MaxSegments == 2
MaxTurns == 2

Max(a, b) == IF a >= b THEN a ELSE b
Min(a, b) == IF a <= b THEN a ELSE b

RECURSIVE StripLeft(_)
StripLeft(text) ==
    IF text # <<>> /\ Head(text) = " " THEN StripLeft(Tail(text)) ELSE text

RECURSIVE StripRight(_)
StripRight(text) ==
    IF text # <<>> /\ text[Len(text)] = " "
    THEN StripRight(SubSeq(text, 1, Len(text) - 1))
    ELSE text

\* str.strip()
Strip(text) == StripRight(StripLeft(text))

\* overlap_duration = max(0.0, min(seg_end, turn_end) - max(seg_start, turn_start))
Overlap(seg, turn) == Max(0, Min(seg.end, turn.end) - Max(seg.start, turn.start))

\* if overlap_duration >= max_overlap
OverlapNotBelow(overlap_duration, max_overlap) == overlap_duration >= max_overlap

\* if overlap_duration > max_overlap
OverlapExceeds(overlap_duration, max_overlap) == overlap_duration > max_overlap

\* the loop over diarization_turns for one segment
RECURSIVE ScanTurns(_, _, _, _)
ScanTurns(seg, turns, best_speaker, max_overlap) ==
    IF turns = <<>> THEN best_speaker
    ELSE IF OverlapExceeds(Overlap(seg, Head(turns)), max_overlap)
    THEN ScanTurns(seg, Tail(turns), Head(turns).speaker, Overlap(seg, Head(turns)))
    ELSE ScanTurns(seg, Tail(turns), best_speaker, max_overlap)

MergedSegment(seg, turns) ==
    [text |-> Strip(seg.text), start |-> seg.start, end |-> seg.end,
     speaker |-> ScanTurns(seg, turns, "UNKNOWN", 0)]

\* the merged segments appended in reverse
RECURSIVE MergeEachReversed(_, _)
MergeEachReversed(segments, turns) ==
    IF segments = <<>> THEN <<>>
    ELSE MergeEachReversed(Tail(segments), turns) \o <<MergedSegment(Head(segments), turns)>>

RECURSIVE MergeEach(_, _)
MergeEach(segments, turns) ==
    IF segments = <<>> THEN <<>>
    ELSE <<MergedSegment(Head(segments), turns)>> \o MergeEach(Tail(segments), turns)

\* [{**seg, "speaker": "UNKNOWN"} for seg in whisper_segments]
RECURSIVE AllUnknown(_)
AllUnknown(segments) ==
    IF segments = <<>> THEN <<>>
    ELSE <<[text |-> Head(segments).text, start |-> Head(segments).start,
            end |-> Head(segments).end, speaker |-> "UNKNOWN"]>>
         \o AllUnknown(Tail(segments))

_merge_results(whisper_segments, diarization_turns) ==
    IF diarization_turns = <<>> THEN AllUnknown(whisper_segments)
    ELSE MergeEach(whisper_segments, diarization_turns)

Segment(text, start, end) == [text |-> text, start |-> start, end |-> end]

SegmentPool ==
    {Segment(<<"h", "i">>, 10, 30), Segment(<<" ", "o", "k", " ">>, 0, 10),
     Segment(<<"h", "m">>, 40, 50), Segment(<<>>, 0, 0)}

TurnPool ==
    {[speaker |-> "SPEAKER_00", start |-> 0, end |-> 20],
     [speaker |-> "SPEAKER_01", start |-> 18, end |-> 40],
     [speaker |-> "SPEAKER_01", start |-> 0, end |-> 10],
     [speaker |-> "A", start |-> 20, end |-> 30]}

SeqsUpTo(S, n) == UNION {[1..k -> S] : k \in 0..n}

MergeInit ==
    /\ sessions = [s \in StoredSessionIds |-> NotLoaded]
    /\ disk = [s \in StoredSessionIds |-> NoFile]
    /\ persist = FALSE /\ available = FALSE
    /\ calls = 0 /\ lastCall = NoCall /\ createdFor = {} /\ labelled = {}
    /\ resolved = [s \in StoredSessionIds |-> 0]
    /\ eventLoop = IdleLoop
    /\ \E segments \in SeqsUpTo(SegmentPool, MaxSegments),
          turns \in SeqsUpTo(TurnPool, MaxTurns) :
          merge = [segments |-> segments, turns |-> turns, done |-> FALSE, merged |-> <<>>]

\* AudioProcessor._merge_results(whisper_segments, diarization_turns)
MergeResults ==
    /\ ~merge.done
    /\ merge' = [merge EXCEPT !.done = TRUE,
                              !.merged = _merge_results(merge.segments, merge.turns)]
    /\ UNCHANGED <<sessions, disk, persist, available, calls, lastCall,
                   createdFor, labelled,
                   resolved, eventLoop>>

NextMerge == MergeResults

SpecMerge == MergeInit /\ [][NextMerge]_vars

---------------------------------------------------------------------------
(* AudioProcessor.process_audio and the handler of POST /inference.         *)

\* what process_audio returns, and the store it leaves
Processed(st, segments) == [st |-> st, segments |-> segments]

\* the turns dropped when the resolver is not run
MergeOnlyResolved(st, use_disk, is_available, whisper_segments, session_id, diarization_turns, embedder, ord) ==
    IF session_id # None /\ is_available /\ diarization_turns # <<>>
    THEN Processed(assign_speakers(st, use_disk, is_available, session_id, diarization_turns,
                                   embedder, 0, ord).st,
                   _merge_results(whisper_segments,
                                  assign_speakers(st, use_disk, is_available, session_id,
                                                  diarization_turns, embedder, 0, ord).turns))
    ELSE Processed(st, _merge_results(whisper_segments, <<>>))

\* Step 2b and Step 3, diarization_turns being what get_speaker_turns returned
TrackAndMerge(st, use_disk, is_available, whisper_segments, session_id, diarization_turns, embedder, ord) ==
    IF session_id # None /\ is_available /\ diarization_turns # <<>>
    THEN Processed(assign_speakers(st, use_disk, is_available, session_id, diarization_turns,
                                   embedder, 0, ord).st,
                   _merge_results(whisper_segments,
                                  assign_speakers(st, use_disk, is_available, session_id,
                                                  diarization_turns, embedder, 0, ord).turns))
    ELSE Processed(st, _merge_results(whisper_segments, diarization_turns))

\* A temporary file is "absent" (never written), "present" or "deleted".
\* AudioConverter.cleanup_temp_file left the file where it was
KeepTempFile(file) == file

\* AudioConverter.cleanup_temp_file: remove the file if it exists
cleanup_temp_file(file) == IF file = "present" THEN "deleted" ELSE file

\* the file at temp_wav_path once the try block is over: convert_to_wav is
\* reached with segments transcribed and diarization enabled and available,
\* and writes the file when it succeeds
TempWav(whisper_segments, enable_diarization, diarization_available, conversion_success) ==
    IF whisper_segments # <<>> /\ enable_diarization /\ diarization_available
                               /\ conversion_success
    THEN "present" ELSE "absent"

\* the try block of process_audio
ProcessSteps(st, use_disk, is_available, whisper_segments, enable_diarization, session_id, diarization_available, conversion_success, diarization_turns, embedder, ord) ==
    IF whisper_segments = <<>> THEN Processed(st, <<>>)
    ELSE IF enable_diarization /\ diarization_available /\ conversion_success
    THEN TrackAndMerge(st, use_disk, is_available, whisper_segments, session_id,
                       diarization_turns, embedder, ord)
    ELSE Processed(st, _merge_results(whisper_segments, <<>>))

\* what the try block returned, and the WAV file after the finally block
Finished(processed, wav) ==
    [st |-> processed.st, segments |-> processed.segments, wav |-> wav]

\* whisper_segments: what WhisperClient.transcribe returns ([] on any failure);
\* diarization_available: DiarizationService.is_available; conversion_success:
\* what convert_to_wav returns; diarization_turns: what get_speaker_turns returns.
process_audio(st, use_disk, is_available, whisper_segments, enable_diarization, session_id, diarization_available, conversion_success, diarization_turns, embedder, ord) ==
    Finished(ProcessSteps(st, use_disk, is_available, whisper_segments, enable_diarization,
                          session_id, diarization_available, conversion_success,
                          diarization_turns, embedder, ord),
             cleanup_temp_file(TempWav(whisper_segments, enable_diarization,
                                       diarization_available, conversion_success)))

\* the parameters process_audio declares, self apart
ProcessAudioParameters == {"audio_path", "enable_diarization", "session_id"}

\* the keyword arguments inference passes to processor.process_audio
InferenceKeywords == {"audio_path", "enable_diarization", "session_id", "num_speakers"}

\* every keyword argument is a declared parameter and the parameter without
\* default is given; otherwise the call raises TypeError
CallBinds(keywords, parameters) == keywords \subseteq parameters /\ "audio_path" \in keywords

\* " ".join(seg["text"] for seg in segments if seg.get("text"))
RECURSIVE JoinTexts(_)
JoinTexts(segments) ==
    IF segments = <<>> THEN <<>>
    ELSE IF Head(segments).text = <<>> THEN JoinTexts(Tail(segments))
    ELSE IF JoinTexts(Tail(segments)) = <<>> THEN Head(segments).text
    ELSE Head(segments).text \o <<" ">> \o JoinTexts(Tail(segments))

Response(st, status, segments, wav) ==
    [st |-> st, status |-> status, segments |-> segments, text |-> JoinTexts(segments),
     wav |-> wav]

\* the response built from what process_audio returned
RespondWith(processed) == Response(processed.st, 200, processed.segments, processed.wav)

\* the try block once the upload is written
ProcessAndRespond(st, use_disk, is_available, whisper_segments, diarize, session_id, diarization_available, conversion_success, diarization_turns, embedder, ord) ==
    IF ~CallBinds(InferenceKeywords, ProcessAudioParameters)
    THEN Response(st, 500, <<>>, "absent")
    ELSE RespondWith(process_audio(st, use_disk, is_available, whisper_segments, diarize,
                                   session_id, diarization_available, conversion_success,
                                   diarization_turns, embedder, ord))

\* the file at temp_path after open and write
UploadFile(stored) == IF stored THEN "present" ELSE "absent"

\* the finally block left the upload where it was
KeepUpload(file) == file

\* the finally block: if temp_path.exists(): temp_path.unlink()
UnlinkUpload(file) == IF file = "present" THEN "deleted" ELSE file

\* the response, and the uploaded file as the handler leaves it
Answer(r, upload) ==
    [st |-> r.st, status |-> r.status, segments |-> r.segments, text |-> r.text,
     wav |-> r.wav, upload |-> upload]

\* the try block of inference
TryInference(st, use_disk, is_available, stored, whisper_segments, diarize, session_id, diarization_available, conversion_success, diarization_turns, embedder, ord) ==
    IF ~stored THEN Response(st, 500, <<>>, "absent")
    ELSE ProcessAndRespond(st, use_disk, is_available, whisper_segments, diarize, session_id,
                           diarization_available, conversion_success, diarization_turns,
                           embedder, ord)

\* initialized: the global processor is set; stored: the upload was written
inference(st, use_disk, is_available, initialized, stored, whisper_segments, diarize, session_id, diarization_available, conversion_success, diarization_turns, embedder, ord) ==
    IF ~initialized THEN Answer(Response(st, 503, <<>>, "absent"), "absent")
    ELSE Answer(TryInference(st, use_disk, is_available, stored, whisper_segments, diarize,
                             session_id, diarization_available, conversion_success,
                             diarization_turns, embedder, ord),
                UnlinkUpload(UploadFile(stored)))

Transcriptions == SeqsUpTo(SegmentPool, MaxSegments)

RequestSessions == {None} \cup SessionIds

SessionOf(session_id) == IF session_id = None THEN CHOOSE s \in SessionIds : TRUE ELSE session_id

\* the num_speakers process_audio gives to get_speaker_turns(temp_wav_path)
\* and to assign_speakers(session_id=, audio_path=, diarization_turns=):
\* the argument is left out, so both take their default None, whatever the
\* request's hint
ForwardedHint(num_speakers) == 0

\* the request, what its environment answers, and the response
InferenceRecord(initialized, stored, whisper_segments, diarize, session_id, num_speakers, diarization_available, conversion_success, diarization_turns, r) ==
    [op |-> "inference", initialized |-> initialized, stored |-> stored,
     transcribed |-> whisper_segments, diarize |-> diarize, session_id |-> session_id,
     num_speakers |-> num_speakers, forwarded |-> ForwardedHint(num_speakers),
     diarization_available |-> diarization_available,
     conversion_success |-> conversion_success, diarization_turns |-> diarization_turns,
     status |-> r.status, segments |-> r.segments, text |-> r.text,
     wav |-> r.wav, upload |-> r.upload]

\* POST /inference
Inference ==
    /\ calls < MaxCalls
    /\ lastCall = NoCall
    /\ \E initialized \in BOOLEAN, stored \in BOOLEAN, whisper_segments \in Transcriptions,
          diarize \in BOOLEAN, session_id \in RequestSessions, num_speakers \in Hints,
          diarization_available \in BOOLEAN, conversion_success \in BOOLEAN,
          diarization_turns \in {<<>>, <<Turn("A", <<5, 20>>)>>} :
       \E embedder \in Embedders(available, diarization_turns),
          ord \in LoadOrders(Store, persist, SessionOf(session_id)) :
          LET r == inference(Store, persist, available, initialized, stored,
                             whisper_segments, diarize, session_id, diarization_available,
                             conversion_success, diarization_turns, embedder, ord)
          IN  /\ sessions' = r.st.sessions
              /\ disk' = r.st.disk
              /\ lastCall' = InferenceRecord(initialized, stored, whisper_segments, diarize,
                                             session_id, num_speakers,
                                             diarization_available, conversion_success,
                                             diarization_turns, r)
    /\ calls' = calls + 1
    /\ UNCHANGED <<persist, available, createdFor, labelled, resolved,
                   eventLoop, merge>>

NextInference == Inference \/ Return

SpecInference == Init /\ [][NextInference]_vars

---------------------------------------------------------------------------
(* AudioProcessor.process_audio called on its own.                          *)

\* what the Transcriber returns: nothing, one segment, or two
ProcessorTranscriptions ==
    SeqsUpTo(SegmentPool, 1)
        \cup {<<Segment(<<"h", "i">>, 10, 30), Segment(<<"h", "m">>, 40, 50)>>}

\* what the Diarizer returns
DiarizedChunks ==
    {<<>>, <<Turn("A", <<0, 3>>)>>, <<Turn("A", <<5, 20>>)>>,
     <<Turn("A", <<0, 5>>), Turn("B", <<5, 20>>)>>}

\* how the POST to the whisper.cpp server ends
WhisperOutcomes == {"ok", "timeout", "http_error"}

\* the responses the server can give for an outcome
WhisperResponses(outcome) == IF outcome = "ok" THEN ProcessorTranscriptions ELSE {<<>>}

\* WhisperClient.transcribe: the segments of the response; TimeoutException,
\* HTTPStatusError and every other exception are caught and answered by [],
\* so that no exception is raised to the caller
transcribe(outcome, segments) ==
    [raised |-> None, segments |-> IF outcome = "ok" THEN segments ELSE <<>>]

\* the call, what its environment answers, and what it returns; raised is
\* the exception that reaches the caller of process_audio
ProcessRecord(outcome, t, enable_diarization, session_id, diarization_available, conversion_success, diarization_turns, r) ==
    [op |-> "process_audio", whisper |-> outcome, raised |-> t.raised,
     transcribed |-> t.segments,
     enable_diarization |-> enable_diarization, session_id |-> session_id,
     diarization_available |-> diarization_available,
     conversion_success |-> conversion_success, diarization_turns |-> diarization_turns,
     tracker_available |-> available, segments |-> r.segments, wav |-> r.wav]

\* AudioProcessor.process_audio(audio_path, enable_diarization, session_id)
ProcessAudio ==
    /\ calls < MaxCalls
    /\ lastCall = NoCall
    /\ \E outcome \in WhisperOutcomes, enable_diarization \in BOOLEAN,
          session_id \in RequestSessions, diarization_available \in BOOLEAN,
          conversion_success \in BOOLEAN, diarization_turns \in DiarizedChunks :
       \E response \in WhisperResponses(outcome),
          embedder \in Embedders(available, diarization_turns),
          ord \in LoadOrders(Store, persist, SessionOf(session_id)) :
          LET t == transcribe(outcome, response)
              r == process_audio(Store, persist, available, t.segments,
                                 enable_diarization, session_id, diarization_available,
                                 conversion_success, diarization_turns, embedder, ord)
          IN  /\ sessions' = r.st.sessions
              /\ disk' = r.st.disk
              /\ lastCall' = ProcessRecord(outcome, t, enable_diarization, session_id,
                                           diarization_available, conversion_success,
                                           diarization_turns, r)
    /\ calls' = calls + 1
    /\ UNCHANGED <<persist, available, createdFor, labelled, resolved,
                   eventLoop, merge>>

NextProcessor == ProcessAudio \/ Return

SpecProcessor == Init /\ [][NextProcessor]_vars

\* POST /inference requests and direct calls of process_audio
NextTempFiles == Inference \/ ProcessAudio \/ Return

SpecTempFiles == Init /\ [][NextTempFiles]_vars

---------------------------------------------------------------------------
(* Vocabulary of the properties.  Cosines are compared here from the dot    *)
(* products directly.                                                       *)

Dot(a, b) == a[1] * b[1] + a[2] * b[2]

\* cos(a, b) >= 0.60
CosAtLeast60(a, b) ==
    /\ Dot(a, a) # 0 /\ Dot(b, b) # 0
    /\ Dot(a, b) > 0
    /\ 100 * Dot(a, b) * Dot(a, b) >= 36 * Dot(a, a) * Dot(b, b)

Sign(n) == IF n > 0 THEN 1 ELSE IF n < 0 THEN -1 ELSE 0

\* cos(a, b) <= cos(a, c), for b and c of non-zero norm
CosLeq(a, b, c) ==
    Sign(Dot(a, b)) * Dot(a, b) * Dot(a, b) * Dot(c, c)
        <= Sign(Dot(a, c)) * Dot(a, c) * Dot(a, c) * Dot(b, b)

StableIds == <<"SPEAKER_00", "SPEAKER_01", "SPEAKER_02", "SPEAKER_03", "SPEAKER_04",
               "SPEAKER_05", "SPEAKER_06">>

Assigned == lastCall.op = "assign_speakers" /\ lastCall.ran

Steps == IF Assigned THEN Range(lastCall.steps) ELSE {}

ProfileOf(profiles, id) == profiles[ProfileIndex(profiles, id)]

\* every turn that carried the step's local label carries label in the result
Relabelled(step, label) ==
    /\ Len(lastCall.result) = Len(lastCall.turns)
    /\ \A k \in 1..Len(lastCall.turns) :
          lastCall.turns[k].speaker = step.label =>
              /\ lastCall.result[k].speaker = label
              /\ lastCall.result[k].start = lastCall.turns[k].start
              /\ lastCall.result[k].end = lastCall.turns[k].end

HasMatch(step) ==
    /\ step.embedding # NoEmbedding
    /\ \E i \in 1..Len(step.pre) : CosAtLeast60(step.embedding, Centroid(step.pre[i]))

Unmatched(step) ==
    /\ step.embedding # NoEmbedding
    /\ \A i \in 1..Len(step.pre) : ~CosAtLeast60(step.embedding, Centroid(step.pre[i]))

\* post is pre after upsert(id, embedding, duration)
IsUpsert(pre, post, id, embedding, duration) ==
    /\ ProfileIds(post) = ProfileIds(pre) \cup {id}
    /\ Len(post) = Cardinality(ProfileIds(post))
    /\ \A i \in 1..Len(post) : post[i].speaker_id # id => post[i] \in Range(pre)
    /\ IF id \in ProfileIds(pre)
       THEN /\ ProfileOf(post, id).embeddings = Append(ProfileOf(pre, id).embeddings, embedding)
            /\ ProfileOf(post, id).total_duration = ProfileOf(pre, id).total_duration + duration
            /\ ProfileOf(post, id).chunk_count = ProfileOf(pre, id).chunk_count + 1
       ELSE /\ ProfileOf(post, id).embeddings = <<embedding>>
            /\ ProfileOf(post, id).total_duration = duration
            /\ ProfileOf(post, id).chunk_count = 1

---------------------------------------------------------------------------
(* C3: a local label whose embedding has a best cosine similarity of at     *)
(* least 0.60 (0.60 included) against the session's centroids is mapped to  *)
(* a profile of greatest similarity, all its turns are relabelled with that *)
(* profile's identifier, and no profile is created for it.                  *)
C3_MatchRelabels ==
    \A step \in Steps :
        HasMatch(step) =>
            /\ step.mapped \in ProfileIds(step.pre)
            /\ CosAtLeast60(step.embedding, Centroid(ProfileOf(step.pre, step.mapped)))
            /\ \A i \in 1..Len(step.pre) :
                  CosLeq(step.embedding, Centroid(step.pre[i]),
                         Centroid(ProfileOf(step.pre, step.mapped)))
            /\ Relabelled(step, step.mapped)
            /\ ProfileIds(step.post) = ProfileIds(step.pre)

\* a label matched at a similarity of exactly 0.60
C3_Witness ==
    \E step \in Steps :
        /\ HasMatch(step)
        /\ step.mapped \in ProfileIds(step.pre)
        /\ 100 * Dot(step.embedding, Centroid(ProfileOf(step.pre, step.mapped)))
               * Dot(step.embedding, Centroid(ProfileOf(step.pre, step.mapped)))
           = 36 * Dot(step.embedding, step.embedding)
                * Dot(Centroid(ProfileOf(step.pre, step.mapped)),
                      Centroid(ProfileOf(step.pre, step.mapped)))
        /\ Len(lastCall.turns) = 2

---------------------------------------------------------------------------
BelowLimit(step) ==
    lastCall.num_speakers = 0 \/ Len(step.pre) < lastCall.num_speakers

AtLimit(step) ==
    lastCall.num_speakers # 0 /\ Len(step.pre) >= lastCall.num_speakers

(* C4: a label with no profile at 0.60 or more, in a session below the     *)
(* hint (or with no hint), is mapped to SPEAKER_<count of profiles>; the    *)
(* profile is inserted at once iff the representative lasts 1.5 s or more,  *)
(* so that the next unmatched label of the chunk gets the next identifier.  *)
C4_NewSpeakerAllocated ==
    /\ \A step \in Steps :
          Unmatched(step) /\ BelowLimit(step) =>
              /\ step.mapped = StableIds[Len(step.pre) + 1]
              /\ Relabelled(step, step.mapped)
              /\ IF step.duration >= 15
                 THEN /\ Len(step.post) = Len(step.pre) + 1
                      /\ IsUpsert(step.pre, step.post, step.mapped, step.embedding, step.duration)
                 ELSE step.post = step.pre
    /\ Assigned =>
          \A i \in 1..Len(lastCall.steps) - 1 :
              /\ Unmatched(lastCall.steps[i]) /\ BelowLimit(lastCall.steps[i])
              /\ lastCall.steps[i].duration >= 15
              /\ Unmatched(lastCall.steps[i + 1]) /\ BelowLimit(lastCall.steps[i + 1])
              => lastCall.steps[i + 1].mapped = StableIds[Len(lastCall.steps[i].pre) + 2]

\* a session holding one profile, two unmatched labels in one chunk
C4_Witness ==
    /\ Assigned
    /\ Len(lastCall.before) = 1
    /\ Len(lastCall.steps) = 2
    /\ Unmatched(lastCall.steps[1]) /\ BelowLimit(lastCall.steps[1])
    /\ Unmatched(lastCall.steps[2]) /\ BelowLimit(lastCall.steps[2])
    /\ lastCall.steps[1].mapped = "SPEAKER_01"
    /\ lastCall.steps[2].mapped = "SPEAKER_02"
    /\ Len(lastCall.after) = 3

(* C5: with a hint and as many profiles as the hint, or more, a label with  *)
(* no profile at 0.60 or more creates no profile and is mapped to the       *)
(* profile of greatest similarity, whatever that similarity; SPEAKER_00 as  *)
(* a fallback is used only when the session holds no profile.               *)
C5_ForcedToBestProfile ==
    \A step \in Steps :
        Unmatched(step) /\ AtLimit(step) =>
            /\ step.post = step.pre
            /\ IF step.pre = <<>>
               THEN step.mapped = "SPEAKER_00"
               ELSE /\ step.mapped \in ProfileIds(step.pre)
                    /\ \A i \in 1..Len(step.pre) :
                          CosLeq(step.embedding, Centroid(step.pre[i]),
                                 Centroid(ProfileOf(step.pre, step.mapped)))

(* C6: a call with hint N >= 1 on a session that holds at most N profiles   *)
(* leaves at most N profiles in it; calls that all carry the same N         *)
(* therefore never take the session past N.                                 *)
C6_HintCapsProfiles ==
    Assigned /\ lastCall.num_speakers >= 1
             /\ Len(lastCall.before) <= lastCall.num_speakers
        => /\ Len(lastCall.after) <= lastCall.num_speakers
           /\ \A step \in Steps : Len(step.post) <= lastCall.num_speakers

\* a session full at the hint, and a label no profile of it matches
C6_Witness ==
    /\ Assigned
    /\ lastCall.num_speakers = 2
    /\ Len(lastCall.before) = 2
    /\ Len(lastCall.after) = 2
    /\ \E step \in Steps : Unmatched(step) /\ step.duration >= 15

(* C7 as stated: for a label mapped by a match, by a new identifier or by   *)
(* the hint, add_speaker is called with the embedding and the duration iff  *)
(* the representative lasts 1.5 s or more; between 0.5 s and 1.5 s the      *)
(* label is mapped and no profile changes.                                  *)
C7_PersistIffLongEnough ==
    \A step \in Steps :
        step.branch \in {"match", "new", "forced", "sentinel"} =>
            IF step.duration >= 15
            THEN IsUpsert(step.pre, step.post, step.mapped, step.embedding, step.duration)
            ELSE step.post = step.pre

(* C7 amended: for a label mapped by a match or by a new identifier,        *)
(* add_speaker is called with the embedding and the duration iff the        *)
(* representative lasts 1.5 s or more; a label mapped by the hint (to the   *)
(* best profile or to SPEAKER_00) changes no profile whatever it lasts.     *)
C7_PersistExceptForced ==
    \A step \in Steps :
        /\ step.branch \in {"match", "new"} =>
              IF step.duration >= 15
              THEN IsUpsert(step.pre, step.post, step.mapped, step.embedding, step.duration)
              ELSE step.post = step.pre
        /\ step.branch \in {"forced", "sentinel"} => step.post = step.pre
        /\ step.branch \in {"match", "new", "forced", "sentinel"} <=> step.embedding # NoEmbedding
        /\ step.branch \in {"forced", "sentinel"} <=> Unmatched(step) /\ AtLimit(step)

\* one chunk with a 1.5 s label mapped by the hint and a 1.5 s label matched
C7_Witness ==
    \E s1 \in Steps : \E s2 \in Steps :
        /\ s1.branch = "forced" /\ s1.duration = 15 /\ s1.post = s1.pre
        /\ s2.branch = "match" /\ s2.duration = 15 /\ s2.post # s2.pre

(* C8: a label whose longest turn is under 0.5 s triggers no Embedder call, *)
(* keeps its raw label on every turn and changes no profile; a longest turn *)
(* of exactly 0.5 s is embedded.                                            *)
C8_ShortLabelsKept ==
    \A step \in Steps :
        /\ step.duration < 5 =>
              /\ ~step.embed_called
              /\ step.mapped = step.label
              /\ Relabelled(step, step.label)
              /\ step.post = step.pre
        /\ step.duration >= 5 => step.embed_called
        /\ \A k \in 1..Len(lastCall.turns) :
              lastCall.turns[k].speaker = step.label =>
                  lastCall.turns[k].end - lastCall.turns[k].start <= step.duration
        /\ \E k \in 1..Len(lastCall.turns) :
              /\ lastCall.turns[k].speaker = step.label
              /\ lastCall.turns[k].end - lastCall.turns[k].start = step.duration

\* a chunk with a label of 0.3 s, kept, and a label of exactly 0.5 s, embedded
C8_Witness ==
    \E s1 \in Steps : \E s2 \in Steps :
        /\ s1.duration = 3 /\ ~s1.embed_called /\ s1.mapped = s1.label
        /\ s2.duration = 5 /\ s2.embed_called /\ s2.embedding # NoEmbedding
        /\ lastCall.before # <<>>

(* C9: when the Embedder returns None for a label's representative, the     *)
(* label is passed through with no profile changed, the other labels of the *)
(* chunk are still resolved and the full turn list is returned.             *)
C9_NoEmbeddingPassthrough ==
    /\ \A step \in Steps :
          step.embed_called /\ step.embedding = NoEmbedding =>
              /\ step.mapped = step.label
              /\ Relabelled(step, step.label)
              /\ step.post = step.pre
    /\ Assigned /\ (\E step \in Steps : step.embed_called /\ step.embedding = NoEmbedding) =>
          /\ Len(lastCall.result) = Len(lastCall.turns)
          /\ \A step \in Steps :
                step.embedding # NoEmbedding =>
                    /\ step.mapped \in Range(StableIds)
                    /\ Relabelled(step, step.mapped)

\* one label without embedding, the other label of the chunk resolved
C9_Witness ==
    /\ Assigned
    /\ Len(lastCall.steps) = 2
    /\ \E s1 \in Steps : \E s2 \in Steps :
          /\ s1.embed_called /\ s1.embedding = NoEmbedding /\ s1.mapped = s1.label
          /\ s2.embedding # NoEmbedding /\ s2.mapped \in Range(StableIds)
          /\ s2.post # s2.pre

---------------------------------------------------------------------------
(* C10: for a non-empty turn list, _merge_results gives each segment the    *)
(* speaker of a turn whose overlap with it is the greatest among all turns, *)
(* and UNKNOWN exactly when no turn overlaps it by more than zero.          *)
C10_MaxOverlapSpeaker ==
    merge.done /\ merge.turns # <<>> =>
        /\ Len(merge.merged) = Len(merge.segments)
        /\ \A i \in 1..Len(merge.segments) :
              /\ merge.merged[i].start = merge.segments[i].start
              /\ merge.merged[i].end = merge.segments[i].end
              /\ (merge.merged[i].speaker = "UNKNOWN") <=>
                    (\A k \in 1..Len(merge.turns) :
                        Overlap(merge.segments[i], merge.turns[k]) <= 0)
              /\ merge.merged[i].speaker # "UNKNOWN" =>
                    \E k \in 1..Len(merge.turns) :
                        /\ merge.turns[k].speaker = merge.merged[i].speaker
                        /\ \A j \in 1..Len(merge.turns) :
                              Overlap(merge.segments[i], merge.turns[j])
                                  <= Overlap(merge.segments[i], merge.turns[k])

\* segment [1.0, 3.0] against SPEAKER_00 [0.0, 2.0] and SPEAKER_01 [1.8, 4.0]
C10_Witness ==
    /\ merge.done
    /\ merge.turns = <<[speaker |-> "SPEAKER_00", start |-> 0, end |-> 20],
                       [speaker |-> "SPEAKER_01", start |-> 18, end |-> 40]>>
    /\ Len(merge.segments) >= 1
    /\ merge.segments[1].start = 10 /\ merge.segments[1].end = 30
    /\ merge.merged[1].speaker = "SPEAKER_01"

---------------------------------------------------------------------------
(* assign_speakers on chunks whose local labels each carry one voice, the   *)
(* Embedder being faithful: the embedding of a voice is at 0.60 or more of  *)
(* a profile's centroid exactly when the profile was created for that       *)
(* voice.  createdFor remembers the voice each profile was created for,     *)
(* labelled the voices each stable identifier has labelled.                 *)

\* the chunks of the voiced calls: one label of 0.3 s, 0.5 s or 1.5 s, or two labels
VoicedChunks ==
    {<<>>} \cup {<<Turn("A", iv)>> : iv \in {<<0, 3>>, <<0, 5>>, <<5, 20>>}}
           \cup {<<Turn("A", p[1]), Turn("B", p[2])>> :
                    p \in {<<<<5, 20>>, <<20, 35>>>>, <<<<0, 5>>, <<5, 20>>>>}}

\* the hints of the voiced calls: none, or the greatest
VoicedHints == {0, MaxHint}

NewIds(step) == ProfileIds(step.post) \ ProfileIds(step.pre)

CreatedBy(session_id, step, voice) ==
    {<<session_id, id, voice[step.label]>> : id \in NewIds(step)}

StepFaithful(session_id, step, voice, created) ==
    step.embedding # NoEmbedding =>
        \A i \in 1..Len(step.pre) :
            CosAtLeast60(step.embedding, Centroid(step.pre[i]))
                <=> <<session_id, step.pre[i].speaker_id, voice[step.label]>> \in created

RECURSIVE FaithfulSteps(_, _, _, _)
FaithfulSteps(session_id, steps, voice, created) ==
    IF steps = <<>> THEN TRUE
    ELSE /\ StepFaithful(session_id, Head(steps), voice, created)
         /\ FaithfulSteps(session_id, Tail(steps), voice,
                          created \cup CreatedBy(session_id, Head(steps), voice))

CreatedByAll(session_id, steps, voice) ==
    UNION {CreatedBy(session_id, steps[i], voice) : i \in 1..Len(steps)}

\* the stable identifiers the call gave, each with the voice of the label
LabelledBy(session_id, steps, voice) ==
    {<<session_id, steps[i].mapped, voice[steps[i].label]>> :
        i \in {k \in 1..Len(steps) : steps[k].branch \in {"match", "new", "forced", "sentinel"}}}

\* SpeakerTracker.assign_speakers(session_id, audio_path, turns, num_speakers)
\* with a faithful Embedder
AssignSpeakersVoiced ==
    /\ calls < MaxCalls
    /\ lastCall = NoCall
    /\ \E session_id \in SessionIds, turns \in VoicedChunks, num_speakers \in VoicedHints :
       \E embedder \in Embedders(available, turns),
          ord \in LoadOrders(Store, persist, session_id),
          voice \in [Range(LabelOrder(turns)) -> Voices] :
          LET r == assign_speakers(Store, persist, available, session_id, turns,
                                   embedder, num_speakers, ord)
          IN  /\ FaithfulSteps(session_id, r.steps, voice, createdFor)
              /\ sessions' = r.st.sessions
              /\ disk' = r.st.disk
              /\ lastCall' = CallRecord(session_id, turns, embedder, num_speakers, ord, r)
              /\ createdFor' = createdFor \cup CreatedByAll(session_id, r.steps, voice)
              /\ labelled' = labelled \cup LabelledBy(session_id, r.steps, voice)
    /\ calls' = calls + 1
    /\ UNCHANGED <<persist, available, resolved, eventLoop, merge>>

NextVoices == AssignSpeakersVoiced \/ Restart \/ Return

SpecVoices == Init /\ [][NextVoices]_vars

(* C1: with a faithful Embedder, no stable identifier of a session is ever  *)
(* given to turns of two different voices.                                  *)
C1_OneVoicePerIdentifier ==
    \A x \in labelled : \A y \in labelled :
        x[1] = y[1] /\ x[2] = y[2] => x[3] = y[3]

---------------------------------------------------------------------------
(* C2: when the processor is initialized, the upload is stored and the      *)
(* Transcriber returns at least one segment, POST /inference answers 200    *)
(* with one annotated segment per transcription segment.                    *)
C2_InferenceSucceeds ==
    /\ lastCall.op = "inference"
    /\ lastCall.initialized /\ lastCall.stored
    /\ lastCall.transcribed # <<>>
    => /\ lastCall.status = 200
       /\ Len(lastCall.segments) = Len(lastCall.transcribed)

---------------------------------------------------------------------------
(* C11: whether the turn list is empty or not, _merge_results returns one   *)
(* segment per transcription segment, in the input order, each with the     *)
(* start and end of its input segment.                                      *)
C11_MergeKeepsSegments ==
    merge.done =>
        /\ Len(merge.merged) = Len(merge.segments)
        /\ \A i \in 1..Len(merge.segments) :
              /\ merge.merged[i].start = merge.segments[i].start
              /\ merge.merged[i].end = merge.segments[i].end
              /\ Strip(merge.merged[i].text) = Strip(merge.segments[i].text)

\* two different segments merged against a non-empty turn list
C11_Witness ==
    /\ merge.done
    /\ merge.turns # <<>>
    /\ Len(merge.segments) = 2
    /\ merge.segments[1].start # merge.segments[2].start
    /\ Len(merge.merged) = 2

---------------------------------------------------------------------------
Processing == lastCall.op = "process_audio"

\* the Diarizer was run on the chunk
Diarized ==
    /\ lastCall.enable_diarization /\ lastCall.diarization_available
    /\ lastCall.conversion_success

\* the resolver was run on the Diarizer's turns
ResolverRan ==
    /\ Diarized /\ lastCall.session_id # None /\ lastCall.tracker_available
    /\ lastCall.diarization_turns # <<>>

\* the Diarizer produced a turn that overlaps the segment by more than zero
Covered(seg) ==
    /\ Diarized
    /\ \E k \in 1..Len(lastCall.diarization_turns) :
          Overlap(seg, lastCall.diarization_turns[k]) > 0

(* C12 as stated: a segment returned by process_audio carries UNKNOWN iff   *)
(* diarization produced no turn covering it or the resolver was not run.    *)
C12_UnknownIffUncoveredOrUnresolved ==
    Processing =>
        \A i \in 1..Len(lastCall.segments) :
            lastCall.segments[i].speaker = "UNKNOWN"
                <=> (~Covered(lastCall.transcribed[i]) \/ ~ResolverRan)

(* C12 amended: a segment returned by process_audio carries UNKNOWN iff     *)
(* diarization produced no turn that overlaps it by more than zero, whether *)
(* the resolver was run or not.                                             *)
C12_UnknownIffUncovered ==
    Processing =>
        /\ Len(lastCall.segments) = Len(lastCall.transcribed)
        /\ \A i \in 1..Len(lastCall.segments) :
              lastCall.segments[i].speaker = "UNKNOWN" <=> ~Covered(lastCall.transcribed[i])

\* no session_id, so no resolver: the covered segment keeps the Diarizer's label,
\* the other segment of the chunk is UNKNOWN
C12_Witness ==
    /\ Processing /\ Diarized /\ ~ResolverRan
    /\ Len(lastCall.segments) = 2
    /\ lastCall.segments[1].speaker = "A"
    /\ lastCall.segments[2].speaker = "UNKNOWN"

---------------------------------------------------------------------------
(* C13: a GET /session/{id}/speakers that directly follows a DELETE         *)
(* /session/{id} returns no speaker and speaker_count 0, also when the      *)
(* session had a snapshot on disk: the delete removed the profiles held in  *)
(* memory and the snapshot file.                                            *)
C13_EmptyAfterDelete ==
    /\ lastCall.op = "get_session_speakers" /\ lastCall.status = 200
    /\ lastCall.prev.op = "clear_session" /\ lastCall.prev.status = 200
    /\ lastCall.prev.session_id = lastCall.session_id
    => /\ lastCall.speakers = <<>>
       /\ lastCall.speaker_count = 0
       /\ ~lastCall.prev.sessions_after[lastCall.session_id].loaded
       /\ ~lastCall.prev.disk_after[lastCall.session_id].exists

\* the deleted session held profiles in memory and a snapshot on disk
C13_Witness ==
    /\ lastCall.op = "get_session_speakers" /\ lastCall.status = 200
    /\ lastCall.prev.op = "clear_session" /\ lastCall.prev.status = 200
    /\ lastCall.prev.session_id = lastCall.session_id
    /\ lastCall.prev.sessions_before[lastCall.session_id].profiles # <<>>
    /\ lastCall.prev.disk_before[lastCall.session_id].exists
    /\ lastCall.speaker_count = 0

\* C14: with persistence on, a non-empty session that was saved, dropped
\* from memory and loaded again through get_session has the same speaker
\* ids, and each loaded profile has the centroid, total_duration and
\* chunk_count it had before the save, its embeddings being the one-element
\* list holding that centroid.
Reloaded ==
    /\ lastCall.op = "get_session_speakers" /\ lastCall.status = 200
    /\ lastCall.prev.op = "restart"
    /\ persist
    /\ lastCall.prev.dropped[lastCall.session_id].loaded
    /\ lastCall.prev.dropped[lastCall.session_id].profiles # <<>>

C14_SaveLoadRoundTrip ==
    Reloaded =>
        LET saved  == lastCall.prev.dropped[lastCall.session_id].profiles
            loaded == lastCall.profiles
        IN  /\ ProfileIds(loaded) = ProfileIds(saved)
            /\ Len(loaded) = Len(saved)
            /\ \A i \in 1..Len(saved) :
                  LET q == loaded[ProfileIndex(loaded, saved[i].speaker_id)]
                  IN  /\ Centroid(q) = Centroid(saved[i])
                      /\ q.total_duration = saved[i].total_duration
                      /\ q.chunk_count = saved[i].chunk_count
                      /\ q.embeddings = <<Centroid(saved[i])>>

\* two speakers are reloaded, one of them saved with two distinct embeddings
C14_Witness ==
    /\ Reloaded
    /\ Len(lastCall.profiles) = 2
    /\ \E i \in 1..2 :
          LET p == lastCall.prev.dropped[lastCall.session_id].profiles[i]
          IN  /\ Len(p.embeddings) = 2
              /\ p.embeddings[1] # p.embeddings[2]
              /\ p.chunk_count = 2

\* C15: assign_speakers called with an empty turn list returns the empty
\* list, adds no profile to any session and writes no snapshot: the dict of
\* sessions and every snapshot file are as they were before the call.
C15_EmptyTurnsNoEffect ==
    (lastCall.op = "assign_speakers" /\ lastCall.turns = <<>>) =>
        /\ lastCall.result = <<>>
        /\ lastCall.steps = <<>>
        /\ lastCall.sessions_after = lastCall.sessions_before
        /\ lastCall.disk_after = lastCall.disk_before

\* the call is made by an available tracker on a session that is on disk
\* but not in memory
C15_Witness ==
    /\ lastCall.op = "assign_speakers" /\ lastCall.turns = <<>>
    /\ available /\ persist
    /\ ~lastCall.sessions_before[lastCall.session_id].loaded
    /\ lastCall.disk_before[lastCall.session_id].exists
    /\ lastCall.result = <<>>

\* C16: in every reachable state, a session (all sessions start empty) holds
\* no more profiles, in memory or in its snapshot, than the number of
\* distinct (chunk, local label) pairs resolved for it so far.
C16_ProfilesBoundedByLabels ==
    \A s \in StoredSessionIds :
        /\ Len(sessions[s].profiles) <= resolved[s]
        /\ Cardinality(disk[s].entries) <= resolved[s]

\* a session holds as many profiles as labels were resolved for it, three
\* of them over two chunks
C16_Witness ==
    \E s \in StoredSessionIds :
        /\ resolved[s] = 3
        /\ Len(sessions[s].profiles) = 3
        /\ calls = 2

\* the decimal digits of n, most significant first
RECURSIVE Digits(_)
Digits(n) == IF n < 10 THEN <<n>> ELSE Append(Digits(n \div 10), n % 10)

\* the characters f"{n:02d}" writes after "SPEAKER_", each digit as its value
PaddedDigits(n) == IF n < 10 THEN <<0, n>> ELSE Digits(n)

\* a < b in the order of Python strings, on strings of digits
RECURSIVE LexLess(_, _)
LexLess(a, b) ==
    IF b = <<>> THEN FALSE
    ELSE IF a = <<>> THEN TRUE
    ELSE IF Head(a) # Head(b) THEN Head(a) < Head(b)
    ELSE LexLess(Tail(a), Tail(b))

\* the number n whose identifier get_next_speaker_id returned in the step
IssuedNumber(step) == CHOOSE n \in 0..(Len(step.pre) + 1) : FormatSpeakerId(n) = step.mapped

\* C17: within a session, the identifiers successive calls of
\* get_next_speaker_id return are lexicographically increasing in the order
\* they are issued: of two identifiers issued during one call of
\* assign_speakers, the later one is the greater string.
C17_IdsIncrease ==
    Assigned =>
        \A i \in 1..Len(lastCall.steps) : \A j \in 1..Len(lastCall.steps) :
            /\ i < j
            /\ lastCall.steps[i].branch = "new"
            /\ lastCall.steps[j].branch = "new"
            => LexLess(PaddedDigits(IssuedNumber(lastCall.steps[i])),
                       PaddedDigits(IssuedNumber(lastCall.steps[j])))

\* the session's own profiles when step i of the call starts: those the
\* latest earlier step with an embedding left, else those get_session gave
RECURSIVE OwnProfiles(_)
OwnProfiles(i) ==
    IF i = 1 THEN lastCall.before
    ELSE IF lastCall.steps[i - 1].embedding # NoEmbedding THEN lastCall.steps[i - 1].post
    ELSE OwnProfiles(i - 1)

SessionCall ==
    /\ lastCall.op \in {"assign_speakers", "get_session_speakers", "clear_session"}
    /\ lastCall.op # "assign_speakers" => lastCall.status = 200

\* C18: a call of assign_speakers, get_session_speakers or clear_session on
\* one session_id leaves the profiles and the snapshot file of every other
\* session_id as they were, and the best match of a label is searched among
\* the profiles of its own session only.
C18_SessionsIsolated ==
    SessionCall =>
        /\ \A t \in StoredSessionIds \ {lastCall.session_id} :
              /\ lastCall.sessions_after[t] = lastCall.sessions_before[t]
              /\ lastCall.disk_after[t] = lastCall.disk_before[t]
        /\ lastCall.op = "assign_speakers" =>
              \A i \in 1..Len(lastCall.steps) :
                  lastCall.steps[i].embedding # NoEmbedding =>
                      /\ lastCall.steps[i].pre = OwnProfiles(i)
                      /\ [id |-> lastCall.steps[i].match_id,
                          sim |-> lastCall.steps[i].similarity]
                            = find_matching_speaker(OwnProfiles(i), lastCall.steps[i].embedding)

\* a label is resolved as a new speaker of its session while another
\* session, in memory and on disk, holds a profile its embedding matches
C18_Witness ==
    /\ Assigned
    /\ \E t \in StoredSessionIds \ {lastCall.session_id} :
          /\ lastCall.sessions_before[t].profiles # <<>>
          /\ lastCall.disk_before[t].exists
          /\ lastCall.sessions_after[t] = lastCall.sessions_before[t]
          /\ \E i \in 1..Len(lastCall.steps) :
                /\ lastCall.steps[i].branch = "new"
                /\ lastCall.steps[i].match_id = None
                /\ IsMatch(find_matching_speaker(lastCall.sessions_before[t].profiles,
                                                 lastCall.steps[i].embedding).id,
                           find_matching_speaker(lastCall.sessions_before[t].profiles,
                                                 lastCall.steps[i].embedding).sim)

\* the request is between its entry into assign_speakers and the return of
\* save_session
InResolver(t) == eventLoop.tasks[t].pc = "in_resolver"

\* the request is in code that reads or writes the profiles or the snapshot
Touching(t) == eventLoop.tasks[t].pc \in {"in_resolver", "in_handler"}

\* C19: concurrent requests that share a session_id never overlap inside
\* the resolver: while a request is between its first read of the session's
\* profiles and the return of its save_session, no other request on that
\* session is reading or writing the profiles or the snapshot file.
C19_ResolverNotOverlapped ==
    \A t \in Tasks : \A u \in Tasks \ {t} :
        /\ InResolver(t)
        /\ eventLoop.tasks[u].session_id = eventLoop.tasks[t].session_id
        => ~Touching(u)

\* a request is inside the resolver, one label done and one to do, while a
\* second process_audio on the same session is waiting for its transcription
C19_Witness ==
    \E t \in Tasks : \E u \in Tasks \ {t} :
        /\ InResolver(t)
        /\ Len(eventLoop.tasks[t].labels) = 1
        /\ Len(LabelOrder(eventLoop.tasks[t].turns)) = 2
        /\ sessions[eventLoop.tasks[t].session_id].profiles # <<>>
        /\ eventLoop.tasks[u].kind = "process_audio"
        /\ eventLoop.tasks[u].pc = "await_transcribe"
        /\ eventLoop.tasks[u].session_id = eventLoop.tasks[t].session_id

C21_TimeoutSurfaced ==
    (lastCall.op = "process_audio" /\ lastCall.whisper = "timeout") =>
        lastCall.raised = "timeout"

\* the Transcoder was called and failed
ConversionFailed ==
    /\ lastCall.op = "process_audio"
    /\ lastCall.transcribed # <<>>
    /\ lastCall.enable_diarization /\ lastCall.diarization_available
    /\ ~lastCall.conversion_success

\* C22: when the Transcoder fails to convert the chunk audio, process_audio
\* makes the request fail: an exception reaches its caller (answered 500)
\* and no annotated segment is returned.
C22_ConversionFailureFails ==
    ConversionFailed => (lastCall.raised # None /\ lastCall.segments = <<>>)

\* the call had a snapshot to load and the load failed
LoadFailed ==
    /\ lastCall.op = "assign_speakers_faulty" /\ lastCall.load_error
    /\ lastCall.call.ran /\ persist
    /\ ~lastCall.call.sessions_before[lastCall.call.session_id].loaded
    /\ lastCall.call.disk_before[lastCall.call.session_id].exists

\* the call reached save_session with profiles to write and the save failed
SaveFailed ==
    /\ lastCall.op = "assign_speakers_faulty" /\ lastCall.save_error
    /\ lastCall.call.ran /\ persist
    /\ lastCall.call.after # <<>>

\* what the same call gives when its save succeeds
Unfailed ==
    assign_speakers([sessions |-> lastCall.call.sessions_before,
                     disk |-> lastCall.call.disk_before],
                    persist, available, lastCall.call.session_id, lastCall.call.turns,
                    lastCall.call.embedder, lastCall.call.num_speakers,
                    lastCall.ord)

\* the call left the sessions in memory, and returned the turns, that r holds
SameInMemory(r) ==
    /\ lastCall.call.sessions_after = r.st.sessions
    /\ lastCall.call.result = r.turns

\* C23: a failure of a snapshot load or save does not reach the caller of
\* get_session or assign_speakers: the call returns its turns; after a
\* failed load the session get_session gives is empty; after a failed save
\* the in-memory sessions and the turns returned are those of the call with
\* a successful save.
C23_PersistenceFailuresContained ==
    /\ lastCall.op = "assign_speakers_faulty" =>
          Len(lastCall.call.result) = Len(lastCall.call.turns)
    /\ LoadFailed => lastCall.call.before = <<>>
    /\ SaveFailed =>
          /\ SameInMemory(Unfailed)
          /\ lastCall.call.disk_after = lastCall.call.disk_before

\* the load of a snapshot holding a profile fails, the chunk's speaker is
\* made a new profile, and saving it fails too
C23_Witness ==
    /\ LoadFailed /\ SaveFailed
    /\ lastCall.call.disk_before[lastCall.call.session_id].entries # {}
    /\ Len(lastCall.call.after) = 1
    /\ lastCall.call.disk_after = lastCall.call.disk_before

\* a request with a hint for which the Diarizer and the resolver have work
HintedRequest ==
    /\ lastCall.op = "inference"
    /\ lastCall.initialized /\ lastCall.stored
    /\ lastCall.num_speakers # 0
    /\ lastCall.transcribed # <<>> /\ lastCall.diarize
    /\ lastCall.diarization_available /\ lastCall.conversion_success
    /\ lastCall.diarization_turns # <<>>
    /\ lastCall.session_id # None /\ available

\* C24: the num_speakers hint of a request to /inference is the one
\* process_audio calls the Diarizer and the resolver with, and the request
\* is processed under it.
C24_HintForwarded ==
    HintedRequest =>
        /\ lastCall.status = 200
        /\ lastCall.forwarded = lastCall.num_speakers

\* the step called get_next_speaker_id
Allocates(step) == step.branch = "new"

\* no profile was inserted from the start of step i to the start of step j
NoInsertionBetween(i, j) ==
    \A k \in i..(j - 1) : lastCall.steps[k].post = lastCall.steps[i].pre

\* C25: get_next_speaker_id returns SPEAKER_<nn>, nn being the number of
\* profiles the session holds at that moment, and adds no profile itself;
\* two allocations with no insertion in between return the same identifier.
C25_AllocationIdempotent ==
    Assigned =>
        /\ \A i \in 1..Len(lastCall.steps) :
              Allocates(lastCall.steps[i]) =>
                  /\ lastCall.steps[i].mapped = StableIds[Len(lastCall.steps[i].pre) + 1]
                  /\ ~ShouldPersist(lastCall.steps[i].duration) =>
                        lastCall.steps[i].post = lastCall.steps[i].pre
        /\ \A i \in 1..Len(lastCall.steps) : \A j \in 1..Len(lastCall.steps) :
              /\ i < j
              /\ Allocates(lastCall.steps[i]) /\ Allocates(lastCall.steps[j])
              /\ NoInsertionBetween(i, j)
              => lastCall.steps[j].mapped = lastCall.steps[i].mapped

\* on a session holding one profile, two labels in turn are allocated
\* SPEAKER_01, the first one without insertion
C25_Witness ==
    /\ Assigned
    /\ Len(lastCall.steps) = 2
    /\ Allocates(lastCall.steps[1]) /\ Allocates(lastCall.steps[2])
    /\ Len(lastCall.steps[1].pre) = 1
    /\ lastCall.steps[1].post = lastCall.steps[1].pre
    /\ lastCall.steps[1].mapped = "SPEAKER_01"
    /\ lastCall.steps[2].mapped = "SPEAKER_01"

\* the call has a hint and the step embeds a label while the session holds
\* no profile, so that nothing can match
HintedOnEmpty(step) ==
    /\ lastCall.num_speakers # 0
    /\ step.embedding # NoEmbedding
    /\ step.pre = <<>>

\* C26 as stated: with a num_speakers hint, on a session without profile,
\* the label is mapped to the sentinel SPEAKER_00 and no profile is created
\* or persisted: the session is still empty after the label.
C26_SentinelOnEmptySession ==
    \A step \in Steps :
        HintedOnEmpty(step) =>
            /\ step.mapped = "SPEAKER_00"
            /\ step.post = <<>>

\* C26, amended: with a positive num_speakers hint, on a session without
\* profile, the limit is not reached: the label is given SPEAKER_00 as a new
\* speaker, nothing having matched, and its profile is created if and only
\* if its representative turn lasts at least 1.5 s.
C26_NewSpeakerOnEmptySession ==
    \A step \in Steps :
        HintedOnEmpty(step) =>
            /\ step.branch = "new" /\ step.match_id = None
            /\ step.mapped = "SPEAKER_00"
            /\ IF step.duration >= 15
               THEN /\ Len(step.post) = 1
                    /\ step.post[1].speaker_id = "SPEAKER_00"
                    /\ step.post[1].embeddings = <<step.embedding>>
               ELSE step.post = <<>>

\* a call with hint 1 on an empty session creates and persists SPEAKER_00
C26_Witness ==
    /\ Assigned /\ persist
    /\ lastCall.num_speakers = 1
    /\ lastCall.before = <<>>
    /\ Len(lastCall.steps) = 1
    /\ HintedOnEmpty(lastCall.steps[1])
    /\ Len(lastCall.after) = 1
    /\ lastCall.disk_after[lastCall.session_id].exists

\* C27: for each local label of a chunk, the turn used for the extraction
\* of the embedding is one of the label's turns of greatest end - start
\* and, among those, the one of earliest start, in whatever order the turns
\* are listed.
C27_LongestThenEarliest ==
    \A step \in Steps :
        /\ step.best_turn \in Range(TurnsOf(lastCall.turns, step.label))
        /\ \A t \in Range(TurnsOf(lastCall.turns, step.label)) :
              /\ TurnDuration(t) <= TurnDuration(step.best_turn)
              /\ TurnDuration(t) = TurnDuration(step.best_turn) =>
                    step.best_turn.start <= t.start

\* the chunk_count of a speaker in a list of profiles, 0 when it has none
ChunkCountOf(profiles, speaker_id) ==
    IF speaker_id \in ProfileIds(profiles)
    THEN profiles[ProfileIndex(profiles, speaker_id)].chunk_count
    ELSE 0

\* C28: the chunk_count of a profile is the number of chunks in which at
\* least one local label was mapped to its speaker: a call of
\* assign_speakers raises it by one for a speaker some label of the chunk
\* was mapped to, and leaves it alone for every other speaker.
C28_ChunkCountCountsChunks ==
    Assigned =>
        \A id \in ProfileIds(lastCall.after) :
            ChunkCountOf(lastCall.after, id) =
                ChunkCountOf(lastCall.before, id)
                    + (IF \E step \in Steps : step.mapped = id THEN 1 ELSE 0)

Inserted == lastCall # NoCall /\ lastCall.op = "add_speaker"

\* C29: the embeddings list of a profile never holds more than 50 entries;
\* after more than 50 insertions it holds exactly the 50 most recent ones in
\* the order of their insertion, while total_duration and chunk_count count
\* every insertion.
C29_KeepsFiftyMostRecent ==
    Inserted =>
        LET p == lastCall.after[1]
            n == Len(p.embeddings)
        IN  /\ n <= 50
            /\ n = IF calls > 50 THEN 50 ELSE calls
            /\ \A i \in 1..n : p.embeddings[i] = Voice(calls - n + i)
            /\ p.chunk_count = calls
            /\ p.total_duration = lastCall.total

C29_Witness ==
    /\ Inserted
    /\ calls > 50
    /\ Len(lastCall.after[1].embeddings) = 50
    /\ lastCall.after[1].embeddings[1] = Voice(calls - 49)
    /\ lastCall.after[1].chunk_count > 50

\* the snapshot entry of a profile: its centroid, total_duration and chunk_count
EntryOf(profile) ==
    [speaker_id |-> profile.speaker_id, centroid |-> Centroid(profile),
     duration |-> profile.total_duration, count |-> profile.chunk_count]

\* C30: with persistence configured, when assign_speakers returns after
\* processing a non-empty turn list on a session that holds at least one
\* profile, the snapshot file of the session exists and lists exactly the
\* speaker ids held in memory, each with its current centroid,
\* total_duration and chunk_count.
C30_SnapshotMatchesMemory ==
    (Assigned /\ lastCall.ran /\ persist /\ lastCall.after # <<>>) =>
        /\ disk[lastCall.session_id].exists
        /\ disk[lastCall.session_id].entries = {EntryOf(p) : p \in Range(lastCall.after)}
        /\ lastCall.after = sessions[lastCall.session_id].profiles

\* a second chunk has updated a profile that an earlier chunk had saved
C30_Witness ==
    /\ Assigned
    /\ lastCall.ran
    /\ persist
    /\ lastCall.disk_before[lastCall.session_id].exists
    /\ lastCall.after # lastCall.before
    /\ disk[lastCall.session_id].entries # lastCall.disk_before[lastCall.session_id].entries
    /\ disk[lastCall.session_id].entries = {EntryOf(p) : p \in Range(lastCall.after)}

\* SPEAKER_00 .. SPEAKER_(n-1)
FirstIds(n) == {FormatSpeakerId(i) : i \in 0..(n - 1)}

\* the profiles get_session gives for the session, a snapshot loaded when needed
Current(session_id, ord) ==
    Held(get_session(Store, persist, session_id, ord).sessions, session_id)

\* C31: in every reachable state a session holding n profiles is keyed
\* exactly by SPEAKER_00 .. SPEAKER_(n-1), each profile holds at least one
\* embedding, and get_next_speaker_id returns an identifier that keys no
\* profile of the session.
C31_KeysContiguous ==
    \A s \in StoredSessionIds :
        /\ ProfileIds(sessions[s].profiles) = FirstIds(Len(sessions[s].profiles))
        /\ \A i \in 1..Len(sessions[s].profiles) : sessions[s].profiles[i].embeddings # <<>>
        /\ \A ord \in LoadOrders(Store, persist, s) :
              /\ ProfileIds(Current(s, ord)) = FirstIds(Len(Current(s, ord)))
              /\ get_next_speaker_id(Store, persist, s, ord) \notin ProfileIds(Current(s, ord))

\* a session holds two profiles, the second created after a restart and a
\* reload of the snapshot that held the first
C31_Witness ==
    /\ lastCall.op = "assign_speakers_faulty"
    /\ ~lastCall.load_error
    /\ ~lastCall.call.sessions_before[lastCall.call.session_id].loaded
    /\ Len(lastCall.call.before) = 1
    /\ Len(lastCall.call.after) = 2
    /\ ProfileIds(lastCall.call.after) = FirstIds(2)
    /\ get_next_speaker_id(Store, persist, lastCall.call.session_id, <<>>) = FormatSpeakerId(2)

\* the most recent DELETE /session/{id} has returned its response
DeleteReturned ==
    /\ lastCall.op = "delete_session"
    /\ eventLoop.tasks[lastCall.task].pc = "done"

\* a chunk request for the session, received after the DELETE, has entered
\* the resolver
LaterChunkResolved ==
    \E u \in lastCall.not_received :
        /\ eventLoop.tasks[u].kind = "process_audio"
        /\ eventLoop.tasks[u].session_id = lastCall.session_id
        /\ eventLoop.tasks[u].turns # <<>>
        /\ eventLoop.tasks[u].pc \in {"in_resolver", "merge", "done"}

\* C32: once DELETE /session/{id} has returned, the session has no profile
\* in memory and no snapshot on disk until a chunk request received after the
\* DELETE runs the resolver; a chunk request that was waiting for its
\* transcription when the DELETE ran re-creates neither.
C32_DeleteOutlastsInFlight ==
    (DeleteReturned /\ ~LaterChunkResolved) =>
        /\ sessions[lastCall.session_id].profiles = <<>>
        /\ ~disk[lastCall.session_id].exists

====
